---- MODULE Spec2Model ----
(***************************************************************************)
(* mongo-adonis: the active-record lifecycle of MongoModel (save, delete,  *)
(* refresh, hydration, dirty tracking) over a document store, and the      *)
(* filter accumulation of MongoQueryBuilder (where, orWhere).              *)
(***************************************************************************)
EXTENDS Integers, Sequences, FiniteSets, TLC

\* ------------------------------------------------------------------ bounds
MaxDocs == 2        \* identifiers the store hands out
MaxCalls == 3       \* chained builder calls per builder
MaxChain == 2       \* chained calls on a builder and its clone together
MaxQueries == 2     \* execute-class calls whose events are recorded
MaxFoc == 2         \* successive firstOrCreate calls
MaxClock == 4       \* milliseconds the wall clock runs
MaxSaves == 3       \* save() calls that return on the timestamped instance
MaxLoads == 3       \* operations that produce the instance of a transformed column
MaxCopies == 2      \* pivot records stored for one owner and one related id
MaxRecords == 3     \* pivot records stored for one owner
MaxClients == 3     \* MongoClient objects created for the named connection

\* ------------------------------------------------------------------ values
Undef == "undef"                       \* JavaScript undefined / absent key
Insts == {1}                           \* instance slots held by the caller
Ids == {ToString(n) : n \in 1..MaxDocs}
UserVals == {"Abc", "abc"}             \* values a caller assigns to the column
ColKeys == {"_id", "name", "full_name"}
PropOrder == <<"_id", "name">>         \* decorated properties, declaration order
Configs == {"plain", "renamed", "transform"}

VARIABLES
    cfg,        \* column configuration of the model class
    store,      \* collection: identifier -> document (all Undef = absent)
    nextId,     \* next identifier the driver generates
    inst,       \* slot -> model instance
    pc,         \* slot -> position inside the running operation
    saveIsNew,  \* slot -> the isNew local of the running save()
    saveId,     \* slot -> the id local of the running save() (insert's result)
    op,         \* slot -> last operation applied to the instance
    result,     \* slot -> outcome of that operation
    trace,      \* slot -> hooks and store calls of that operation, in order
    retry,      \* slot -> "rejected": a before-hook rejected save() on the new
                \*         instance; "retrying": the save() after that one
    delDone,    \* slot -> delete() has completed on this instance
    bfilter,    \* builder: key -> filter entry
    bor,        \* builder: the $or array
    bcalls,     \* builder: where/orWhere calls made so far
    blast,      \* builder: the last call made
    bprev,      \* builder: the call before the last one
    borArgs,    \* builder: the arguments of the orWhere calls, in call order
    cloned,     \* clone pair: c = b.clone() has been called
    filter,     \* clone pair: builder -> key -> value or object reference
    objects,    \* clone pair: address -> operator object
    arrays,     \* clone pair: address -> $or array
    projection, \* clone pair: builder -> selected fields
    sortOptions,\* clone pair: builder -> field -> direction
    limitValue, \* clone pair: builder -> limit
    skipValue,  \* clone pair: builder -> skip
    chained,    \* clone pair: chained calls made so far on the two builders
    caller,     \* clone pair: the builder the last call was made on
    events,     \* emitter: the mongodb:query events emitted, in order
    running,    \* emitter: the execute-class call in progress or last returned
    qpc,        \* emitter: position inside that call
    mark,       \* emitter: number of events emitted before that call began
    raised,     \* emitter: the error that call raised to its caller
    queries,    \* emitter: execute-class calls made so far
    focArgs,    \* firstOrCreate: the arguments of the calls made, in call order
    focHit,     \* firstOrCreate: per call, the document its query returned
    focBefore,  \* firstOrCreate: per call, the collection when it was called
    clock,      \* timestamps: the wall clock, in milliseconds
    tcols,      \* timestamps: $timestampColumns of the class, property -> options
    installed,  \* timestamps: $timestampHooksInstalled of the class
    wrappers,   \* timestamps: wrappers installed around the prototype's save
    tinst,      \* timestamps: the instance
    tdoc,       \* timestamps: its stored document
    tpc,        \* timestamps: position inside the running save()
    passes,     \* timestamps: stamping passes the running save() has made
    called,     \* timestamps: the clock when the running save() was called
    tlog,       \* timestamps: per save() that returned, what it left stored
    options,    \* serialization: the options the column was declared with
    columnDef,  \* serialization: its entry of $columnsDefinitions
    propValue,  \* serialization: the value of the property on the instance
    serialized, \* serialization: what serialize() last returned
    json,       \* serialization: what toJSON() last returned
    object,     \* serialization: what toObject() last returned
    transform,  \* transforms: the prepare/consume pair the column declares
    raw,        \* transforms: the column's value in the stored document
    exposed,    \* transforms: the property's value on the instance
    given,      \* transforms: the value last assigned by the caller
    loads,      \* transforms: the operations that produced the instance, in order
    pivot,      \* relations: owner -> related id -> pivot records stored
    rel,        \* relations: the relation call in progress or last returned
    relPc,      \* relations: position inside that call
    pending,    \* relations: the pivot records its attach step has yet to save
    observed,   \* relations: what a concurrent reader saw during the call
    replaced,   \* relations: the ids of the sync that last replaced the
                \*            records of the owner of rel, before rel
    clients,    \* connection: MongoClient objects created so far
    inflight,   \* connection: the clients whose connect() is still awaited
    client,     \* connection: this.client (0: never assigned)
    isReady,    \* connection: _isReady
    isClosed,   \* connection: _isClosed
    connState,  \* connection: the state field of the MongoConnection
    nodeState,  \* connection: the state field of the manager's ConnectionNode
    connected,  \* connection: the connect event has fired, no disconnect since
    asked,      \* connection: the last call and what isConnected() told it
    rawQuery,   \* raw objects: the object passed to where() or as a stage
    sent,       \* raw objects: the object that reaches the store
    rawVia,     \* raw objects: the call that took it
    matching,   \* concurrent callers: stored documents that match search
    racePc,     \* concurrent callers: caller -> position inside its call
    raceKind,   \* concurrent callers: caller -> the static method it called
    raceSaw     \* concurrent callers: caller -> what its query.first() returned

modelVars == <<cfg, store, nextId, inst, pc, saveIsNew, saveId, op, result, trace,
               retry, delDone>>
builderVars == <<bfilter, bor, bcalls, blast, bprev, borArgs>>
cloneVars == <<cloned, filter, objects, arrays, projection, sortOptions, limitValue,
               skipValue, chained, caller>>
eventVars == <<events, running, qpc, mark, raised, queries>>
focVars == <<focArgs, focHit, focBefore>>
timeVars == <<clock, tcols, installed, wrappers, tinst, tdoc, tpc, passes, called,
              tlog>>
serialVars == <<options, columnDef, propValue, serialized, json, object>>
transformVars == <<transform, raw, exposed, given, loads>>
relVars == <<pivot, rel, relPc, pending, observed, replaced>>
connVars == <<clients, inflight, client, isReady, isClosed, connState, nodeState,
              connected, asked>>
rawVars == <<rawQuery, sent, rawVia>>
raceVars == <<matching, racePc, raceKind, raceSaw>>
lateVars == <<connVars, rawVars, raceVars>>
earlyVars == <<cloneVars, eventVars, focVars, timeVars, serialVars, transformVars,
               relVars>>
extVars == <<earlyVars, lateVars>>
notConn == <<modelVars, builderVars, earlyVars, rawVars, raceVars>>
notRaw == <<modelVars, builderVars, earlyVars, connVars, raceVars>>
notRace == <<modelVars, builderVars, earlyVars, connVars, rawVars>>
notClone == <<modelVars, builderVars, eventVars, focVars, timeVars, serialVars,
              transformVars, relVars,
    lateVars>>
notEvents == <<modelVars, builderVars, cloneVars, focVars, timeVars, serialVars,
               transformVars, relVars,
    lateVars>>
notTime == <<modelVars, builderVars, cloneVars, eventVars, focVars, serialVars,
             transformVars, relVars,
    lateVars>>
notSerial == <<modelVars, builderVars, cloneVars, eventVars, focVars, timeVars,
               transformVars, relVars,
    lateVars>>
notTransform == <<modelVars, builderVars, cloneVars, eventVars, focVars, timeVars,
                  serialVars, relVars,
    lateVars>>
notRel == <<modelVars, builderVars, cloneVars, eventVars, focVars, timeVars,
            serialVars, transformVars, lateVars>>
vars == <<cfg, store, nextId, inst, pc, saveIsNew, saveId, op, result, trace, retry,
          delDone, bfilter, bor, bcalls, blast, bprev, borArgs, extVars>>

\* ------------------------------------------------------- column metadata
ToUpperCase(v) == IF v \in {"Abc", "ABC", "abc"} THEN "ABC" ELSE v

ToLowerCase(v) == IF v \in {"Abc", "ABC", "abc"} THEN "abc" ELSE v

\* $columnsDefinitions of the model class: property -> definition
ColumnsDefinitions(c) ==
    [p \in {"_id", "name"} |->
        IF p = "_id"
        THEN [columnName |-> "_id", prepare |-> FALSE, consume |-> FALSE]
        ELSE [columnName |-> IF c = "renamed" THEN "full_name" ELSE "name",
              prepare |-> (c = "transform"), consume |-> (c = "transform")]]

EmptyObj == [k \in ColKeys |-> Undef]
KeysOf(o) == {k \in DOMAIN o : o[k] # Undef}

\* the property a data key is assigned to (first matching definition)
PropertyFor(key, c) ==
    LET defs == ColumnsDefinitions(c)
        hit(n) == defs[PropOrder[n]].columnName = key \/ PropOrder[n] = key
    IN IF hit(1) THEN PropOrder[1] ELSE IF hit(2) THEN PropOrder[2] ELSE key

Consumed(key, v, c) ==
    LET defs == ColumnsDefinitions(c)
        p == PropertyFor(key, c)
    IN IF p \in DOMAIN defs /\ defs[p].consume THEN ToLowerCase(v) ELSE v

\* the own properties of the instance after processFromDatabase(data)
ProcessFromDatabase(props, data, c) ==
    [p \in ColKeys |->
        LET src == {k \in KeysOf(data) : PropertyFor(k, c) = p}
        IN IF src = {} THEN props[p]
           ELSE LET k == CHOOSE k \in src : TRUE IN Consumed(k, data[k], c)]

ToObject(props, c) ==
    LET defs == ColumnsDefinitions(c)
        col(k) == IF k \in DOMAIN defs THEN defs[k].columnName ELSE k
        prep(k) == IF k \in DOMAIN defs /\ defs[k].prepare
                   THEN ToUpperCase(props[k]) ELSE props[k]
    IN [o \in ColKeys |->
          LET src == {k \in KeysOf(props) : col(k) = o}
          IN IF src = {} THEN Undef
             ELSE LET k == CHOOSE k \in src : TRUE IN prep(k)]

\* --------------------------------------------------------------- instances
\* field initialisers of MongoModel
NewInstance ==
    [pk |-> Undef, isNew |-> TRUE, isLocal |-> TRUE, isPersisted |-> FALSE,
     isDeleted |-> FALSE, hydrated |-> FALSE,
     props |-> EmptyObj, attrs |-> EmptyObj, original |-> EmptyObj]

IsDirty(m) ==
    \/ m.isNew
    \/ \E k \in KeysOf(m.attrs) : m.props[k] # m.original[k]

\* one element of MongoQueryBuilder.exec()'s result, built from a raw document
ExecInstance(doc, c) ==
    LET p == ProcessFromDatabase(EmptyObj, doc, c)
    IN [NewInstance EXCEPT
          !.attrs = doc,
          !.props = p,
          !.isNew = FALSE,
          !.pk = IF doc["_id"] # Undef THEN doc["_id"] ELSE Undef,
          !.original = ToObject(p, c)]

\* processFromDatabase(r) where r is a model instance returned by first():
\* every own enumerable property of r, internal state included, is copied
CopyFromInstance(m, r, c) ==
    [pk |-> r.pk, isNew |-> r.isNew, isLocal |-> r.isLocal,
     isPersisted |-> r.isPersisted, isDeleted |-> r.isDeleted,
     hydrated |-> r.hydrated,
     props |-> ProcessFromDatabase(m.props, r.props, c),
     attrs |-> r.attrs, original |-> r.original]

CreateModelFromResult(r, c) ==
    LET m == CopyFromInstance(NewInstance, r, c)
    IN [m EXCEPT
          !.pk = r.props["_id"],
          !.isNew = FALSE,
          !.isPersisted = TRUE,
          !.isLocal = FALSE,
          !.hydrated = TRUE,
          !.original = ToObject(m.props, c)]

\* faulty variant: the not-found branch of refresh() keeps the identifier
RefreshMissing_KeepsId(m) ==
    [m EXCEPT !.isNew = TRUE, !.isPersisted = FALSE]

\* refresh(): the query found nothing
RefreshMissing(m) ==
    [m EXCEPT !.isNew = TRUE, !.isPersisted = FALSE, !.pk = Undef]

\* refresh(): the query returned r
RefreshFound(m, r, c) ==
    LET n == CopyFromInstance(m, r, c)
    IN [n EXCEPT
          !.original = ToObject(n.props, c),
          !.isNew = FALSE,
          !.isPersisted = TRUE,
          !.isDeleted = FALSE,
          !.hydrated = TRUE]

\* save(): state assigned once insert() has returned id
Inserted(m, id) ==
    [m EXCEPT !.pk = id, !.isNew = FALSE, !.isPersisted = TRUE,
              !.isLocal = FALSE, !.hydrated = TRUE]

\* delete(): state assigned once the store delete has returned
Deleted(m) == [m EXCEPT !.isDeleted = TRUE, !.isPersisted = FALSE]

\* ------------------------------------------------------------------- store
NoDoc == EmptyObj
Present(id) == id \in Ids /\ store[id]["_id"] = id

\* updateMany({_id: id}, {$set: attributes})
SetFields(doc, attributes) ==
    [k \in ColKeys |-> IF attributes[k] # Undef THEN attributes[k] ELSE doc[k]]


\* ----------------------------------------------------------- query builder
BKeys == {"age", "role"}
BVals == {"18", "65"}
WhereOps == {"=", ">", "<", "like", "$gt"}   \* "$gt": a pass-through operator
OrOps == {"=", ">"}
RawOps == {"$lt"}                            \* operator keys of a raw filter object
StoreOps == {"$gt", "$gte", "$lt", "$lte", "$ne", "$regex", "$options",
             "$in", "$nin"}

NoOps == [s \in StoreOps |-> Undef]
Absent == [kind |-> "none", v |-> Undef, ops |-> NoOps]
Bare(v) == [kind |-> "value", v |-> v, ops |-> NoOps]
OpsEntry(o) == [kind |-> "ops", v |-> Undef, ops |-> o]
EmptyFilter == [k \in BKeys |-> Absent]
NoCall == [call |-> "none", key |-> Undef, op |-> Undef, v |-> Undef]

\* the operator object a where(key, operator, value) call writes: the switch
\* of where(), the default branch using the operator string as the store key
Condition(operator, value) ==
    [s \in StoreOps |->
        CASE operator = ">" /\ s = "$gt" -> value
          [] operator = ">=" /\ s = "$gte" -> value
          [] operator = "<" /\ s = "$lt" -> value
          [] operator = "<=" /\ s = "$lte" -> value
          [] operator = "!=" /\ s = "$ne" -> value
          [] operator = "like" /\ s = "$regex" -> value
          [] operator = "like" /\ s = "$options" -> "i"
          [] operator = "in" /\ s = "$in" -> value
          [] operator = "not in" /\ s = "$nin" -> value
          [] operator = s -> value
          [] OTHER -> Undef]

\* faulty variant: a non-'=' where() overwrites the entry instead of merging into it
WhereEntry_Overwrite(entry, operator, value) ==
    IF operator = "=" THEN Bare(value) ELSE OpsEntry(Condition(operator, value))

\* this.filter[key] after where(key, operator, value), from the entry before
WhereEntry(entry, operator, value) ==
    IF operator = "=" THEN Bare(value)
    ELSE IF entry.kind = "ops"
    THEN OpsEntry([s \in StoreOps |->
                     IF Condition(operator, value)[s] # Undef
                     THEN Condition(operator, value)[s] ELSE entry.ops[s]])
    ELSE OpsEntry(Condition(operator, value))

\* the filter of the cloned, reset builder orWhere() pushes on $or
OrAlternative(key, operator, value) ==
    [EmptyFilter EXCEPT ![key] = WhereEntry(Absent, operator, value)]

\* faulty variant: orWhere() replaces the $or array instead of appending to it
OrPushed_Replace(arr, alternative) == <<alternative>>

\* this.filter.$or after the push of orWhere()
OrPushed(arr, alternative) == Append(arr, alternative)

\* ------------------------------------------- the store's filter evaluation
DocVals == {"18", "40", "65"}
Documents == [BKeys -> DocVals]          \* the documents of the collection

Num(v) == CASE v = "18" -> 18 [] v = "40" -> 40 [] v = "65" -> 65 [] OTHER -> 0

\* one operator of an operator object against a field value
OpMatches(s, v, dv) ==
    CASE s = "$gt" -> Num(dv) > Num(v)
      [] s = "$gte" -> Num(dv) >= Num(v)
      [] s = "$lt" -> Num(dv) < Num(v)
      [] s = "$lte" -> Num(dv) <= Num(v)
      [] s = "$ne" -> dv # v
      [] s = "$regex" -> dv = v          \* the pattern is one of the whole values
      [] s = "$in" -> dv = v
      [] s = "$nin" -> dv # v
      [] OTHER -> TRUE                   \* $options qualifies $regex

EntryMatches(entry, dv) ==
    CASE entry.kind = "none" -> TRUE
      [] entry.kind = "value" -> dv = entry.v
      [] OTHER -> \A s \in StoreOps :
                     entry.ops[s] = Undef \/ OpMatches(s, entry.ops[s], dv)

FilterMatches(f, doc) == \A k \in BKeys : EntryMatches(f[k], doc[k])

\* collection.find(filter): the keys of a filter object are conjoined, the
\* $or key, when present, being one more conjunct
StoreMatches(f, orArray, doc) ==
    /\ FilterMatches(f, doc)
    /\ orArray = <<>> \/ \E n \in 1..Len(orArray) : FilterMatches(orArray[n], doc)


\* --------------------------------------------- a builder and its clone
Builders == {"b", "c"}                   \* c = b.clone()
Other(x) == IF x = "b" THEN "c" ELSE "b"
FilterKeys == BKeys \cup {"$or"}
Addrs == 1..MaxChain                     \* objects the chained calls allocate
CloneOps == {"=", ">", "<"}
Limits == {"1", "10"}
Directions == {"asc", "desc"}

\* a property of this.filter: absent, a primitive value, or a reference to
\* an operator object or to the $or array
NoEntry == [kind |-> "none", v |-> Undef, ref |-> 0]
Primitive(v) == [kind |-> "value", v |-> v, ref |-> 0]
ObjectRef(a) == [kind |-> "object", v |-> Undef, ref |-> a]
ArrayRef(a) == [kind |-> "array", v |-> Undef, ref |-> a]

\* what a builder's state reads as, references followed
BuilderView(x) ==
    [filter |-> [k \in FilterKeys |->
                    LET e == filter[x][k]
                    IN [kind |-> e.kind, v |-> e.v,
                        ops |-> IF e.kind = "object" THEN objects[e.ref] ELSE NoOps,
                        alts |-> IF e.kind = "array" THEN arrays[e.ref] ELSE <<>>]],
     projection |-> projection[x],
     sortOptions |-> sortOptions[x],
     limitValue |-> limitValue[x],
     skipValue |-> skipValue[x]]

\* -------------------------------------------------- execute-class calls
Methods == {"exec", "count", "update", "delete", "insert", "insertMany", "aggregate"}
NoQuery == [method |-> Undef, hydrates |-> FALSE]

\* the payload of one mongodb:query event
QueryEvent(method, error) == [query |-> method, error |-> error]

\* ------------------------------------------------------ timestamp columns
TimestampProps == {"createdAt", "updatedAt"}
NoTimestamp == [registered |-> FALSE, autoCreate |-> FALSE, autoUpdate |-> FALSE]

\* the options the class declares: @column.dateTime({autoCreate: true}) on
\* createdAt, @column.dateTime({autoCreate: true, autoUpdate: true}) on updatedAt
DateTimeOptions(p) ==
    [registered |-> TRUE, autoCreate |-> TRUE, autoUpdate |-> (p = "updatedAt")]

\* faulty variant: a save of a persisted instance stamps the autoCreate columns too
Stamped_OnEverySave(m, cols, now) ==
    [m EXCEPT
        !.createdAt = IF cols["createdAt"].registered THEN now ELSE @,
        !.updatedAt = IF cols["updatedAt"].registered THEN now ELSE @]

\* the forEach of the save wrapper: the instance after one stamping pass
Stamped(m, cols, now) ==
    LET set(p) == \/ m.isNew /\ cols[p].autoCreate
                  \/ ~m.isNew /\ cols[p].autoUpdate
    IN [m EXCEPT
          !.createdAt = IF set("createdAt") THEN now ELSE @,
          !.updatedAt = IF set("updatedAt") THEN now ELSE @]

\* ---------------------------------------------------------- serialization
Property == "password"                   \* the decorated property
OutKeys == {"password", "custom_password", "pass_hash"}
SerializeOpts == {Undef, "true", "false"}
SerializeAsOpts == {Undef, "null", "custom_password"}
ColumnNameOpts == {Undef, "pass_hash"}
NoOptions == [serialize |-> Undef, serializeAs |-> Undef, columnName |-> Undef]
NoDefinition == [declared |-> FALSE, columnName |-> Undef, serialize |-> TRUE,
                 serializeAs |-> Undef]
EmptyOutput == [k \in OutKeys |-> Undef]
NotCalled == [called |-> FALSE, of |-> Undef, out |-> EmptyOutput]

\* the definition the column decorator stores for the options it was given:
\* columnName, isPrimary, serialize, prepare and consume, nothing else
ColumnDefinition(o) ==
    [declared |-> TRUE,
     columnName |-> IF o.columnName # Undef THEN o.columnName ELSE Property,
     serialize |-> (o.serialize # "false"),
     serializeAs |-> Undef]

\* serialize(): the object built from the own property and its definition
SerializeOutput(def, value) ==
    IF value = Undef THEN EmptyOutput
    ELSE IF ~def.declared THEN [EmptyOutput EXCEPT ![Property] = value]
    ELSE IF ~def.serialize THEN EmptyOutput
    ELSE IF def.serializeAs = "null" THEN EmptyOutput
    ELSE IF def.serializeAs # Undef
    THEN [EmptyOutput EXCEPT ![def.serializeAs] = value]
    ELSE [EmptyOutput EXCEPT ![Property] = value]

\* toObject(): the object built from the own property and its definition
ObjectOutput(def, value) ==
    IF value = Undef THEN EmptyOutput
    ELSE IF ~def.declared THEN [EmptyOutput EXCEPT ![Property] = value]
    ELSE [EmptyOutput EXCEPT ![def.columnName] = value]

\* ------------------------------------------------- prepare and consume
\* the pairs a column declares: upper/lower casing, and an amount kept in
\* hundredths (prepare: v => v * 100, consume: v => v / 100)
Transforms == {"case", "hundredths"}
Given(t) == IF t = "case" THEN {"Abc", "abc"} ELSE {"12", "1200"}

Times100(v) ==
    CASE v = "0.12" -> "12" [] v = "12" -> "1200" [] v = "1200" -> "120000"
      [] OTHER -> v

Div100(v) ==
    CASE v = "120000" -> "1200" [] v = "1200" -> "12" [] v = "12" -> "0.12"
      [] v = "0.12" -> "0.0012" [] OTHER -> v

Prepare(t, v) == IF t = "case" THEN ToUpperCase(v) ELSE Times100(v)
Consume(t, v) == IF t = "case" THEN ToLowerCase(v) ELSE Div100(v)

\* the property on an element of exec()'s result: processFromDatabase(document)
Hydrated(t, stored) == Consume(t, stored)

\* the property after createModelFromResult(r) or refresh(), r being the
\* instance first() returned: processFromDatabase(r) consumes r's property
Rehydrated(t, stored) == Consume(t, Hydrated(t, stored))

\* --------------------------------------------------------------- relations
Owners == {"new", "u1", "u2"}            \* "new": an owner that was never saved
SavedOwners == {"u1", "u2"}
Related == {"a", "b", "c"}
IdLists == {<<>>, <<"a">>, <<"c">>, <<"a", "b">>, <<"a", "a">>}
IdsIn(ids) == {ids[n] : n \in 1..Len(ids)}

\* getLocalKeyValue(): this.ownerModel[this.localKey]
LocalKeyValue(o) == IF o \in SavedOwners THEN o ELSE Undef

RelationKinds == {"belongsToMany", "hasMany", "hasOne"}

\* the operations that neither attach, detach nor sync, per relation class
GuardedOps(kind) ==
    IF kind = "belongsToMany"
    THEN {"exec", "exists", "pivotData", "updatePivotData"}
    ELSE {"exec", "save", "create", "associate", "dissociate", "delete"}

NoRelationCall ==
    [kind |-> Undef, name |-> Undef, owner |-> Undef, ids |-> <<>>, given |-> FALSE,
     outcome |-> Undef, issued |-> FALSE]
NotReplaced == <<"none">>

\* faulty variant: no operation raises for a missing local-key value
OnMissingKey_NeverThrows(kind, name) == "returns"

\* what an operation does once it has found the local-key value falsy
OnMissingKey(kind, name) ==
    IF name \in {"save", "create", "associate", "attach", "updatePivotData"}
    THEN "throws" ELSE "returns"

\* the number of pivot records that carry one owner's key
Stored(records) == records["a"] + records["b"] + records["c"]

\* deleteMany({owner: key}) or deleteMany({owner: key, related: {$in: ids}}),
\* the second when ids was passed and is not empty: the owner's records left
Detached(records, isGiven, ids) ==
    [r \in Related |->
        IF isGiven /\ Len(ids) > 0
        THEN IF r \in IdsIn(ids) THEN 0 ELSE records[r]
        ELSE 0]

\* ------------------------------------------------------------- connection
NotAsked == [call |-> Undef, isConnected |-> FALSE, started |-> FALSE]

\* MongoConnectionManager.isConnected(name), the connection being registered
IsConnected == nodeState = "open"

\* ------------------------------------------------------------ raw objects
RawKeys == {"createdAt", "name"}
Leaves == {"string", "date", "objectId", "regex", "array"}
Nesting == {"$gte", "$regex"}
Stages == {"$match", "$addFields"}

\* the value of one key of a raw object: a leaf, or {operator: leaf}
RawValues ==
    [shape : {"leaf"}, op : {Undef}, leaf : Leaves]
        \cup [shape : {"nested"}, op : Nesting, leaf : Leaves]
NoRawObject == [k \in RawKeys |-> [shape |-> "leaf", op |-> Undef, leaf |-> Undef]]

\* processMongoQuery(value) on a value that is not a RegExp: Object.entries
\* of a Date has no entry, those of an ObjectId are its internal fields
Rebuilt(leaf) ==
    CASE leaf = "date" -> "emptyObject"
      [] leaf = "objectId" -> "plainObject"
      [] leaf = "regex" -> "regexDocument"    \* {$regex: source, $options: flags}
      [] OTHER -> leaf

\* what processMongoQuery assigns to result[key]
ProcessedValue(x) ==
    IF x.leaf = "regex" /\ (x.shape = "leaf" \/ x.op = "$regex")
    THEN [shape |-> "nested", op |-> "$regex", leaf |-> "source"]
    ELSE [x EXCEPT !.leaf = Rebuilt(@)]

ProcessMongoQuery(query) == [k \in RawKeys |-> ProcessedValue(query[k])]

\* ----------------------------------------------------- concurrent callers
Callers == {1, 2}
OrCreate == {"firstOrCreate", "updateOrCreate"}

Init ==
    /\ cfg \in Configs
    /\ store = [d \in Ids |-> NoDoc]
    /\ nextId = 1
    /\ inst = [i \in Insts |-> NewInstance]
    /\ pc = [i \in Insts |-> "idle"]
    /\ saveIsNew = [i \in Insts |-> FALSE]
    /\ saveId = [i \in Insts |-> Undef]
    /\ op = [i \in Insts |-> "construct"]
    /\ result = [i \in Insts |-> "ok"]
    /\ trace = [i \in Insts |-> <<>>]
    /\ retry = [i \in Insts |-> "none"]
    /\ delDone = [i \in Insts |-> FALSE]
    /\ bfilter = EmptyFilter
    /\ bor = <<>>
    /\ bcalls = 0
    /\ blast = NoCall
    /\ bprev = NoCall
    /\ borArgs = <<>>
    /\ cloned = FALSE
    /\ filter = [x \in Builders |-> [k \in FilterKeys |-> NoEntry]]
    /\ objects = [a \in Addrs |-> NoOps]
    /\ arrays = [a \in Addrs |-> <<>>]
    /\ projection = [x \in Builders |-> {}]
    /\ sortOptions = [x \in Builders |-> [f \in BKeys |-> Undef]]
    /\ limitValue = [x \in Builders |-> Undef]
    /\ skipValue = [x \in Builders |-> Undef]
    /\ chained = 0
    /\ caller = "b"
    /\ events = <<>>
    /\ running = NoQuery
    /\ qpc = "idle"
    /\ mark = 0
    /\ raised = Undef
    /\ queries = 0
    /\ focArgs = <<>>
    /\ focHit = <<>>
    /\ focBefore = <<>>
    /\ clock = 1
    /\ tcols = [p \in TimestampProps |-> NoTimestamp]
    /\ installed = FALSE
    /\ wrappers = 0
    /\ tinst = [isNew |-> TRUE, createdAt |-> 0, updatedAt |-> 0]
    /\ tdoc = [createdAt |-> 0, updatedAt |-> 0]
    /\ tpc = "idle"
    /\ passes = 0
    /\ called = 0
    /\ tlog = <<>>
    /\ options = NoOptions
    /\ columnDef = NoDefinition
    /\ propValue = Undef
    /\ serialized = NotCalled
    /\ json = NotCalled
    /\ object = NotCalled
    /\ transform = Undef
    /\ raw = Undef
    /\ exposed = Undef
    /\ given = Undef
    /\ loads = <<>>
    /\ pivot = [o \in SavedOwners |-> [r \in Related |-> 0]]
    /\ rel = NoRelationCall
    /\ relPc = "idle"
    /\ pending = <<>>
    /\ observed = "none"
    /\ replaced = NotReplaced
    /\ clients = 0
    /\ inflight = {}
    /\ client = 0
    /\ isReady = FALSE
    /\ isClosed = FALSE
    /\ connState = "registered"
    /\ nodeState = "registered"
    /\ connected = FALSE
    /\ asked = NotAsked
    /\ rawQuery = NoRawObject
    /\ sent = NoRawObject
    /\ rawVia = "none"
    /\ matching = 0
    /\ racePc = [p \in Callers |-> "idle"]
    /\ raceKind = [p \in Callers |-> Undef]
    /\ raceSaw = [p \in Callers |-> Undef]

\* ----------------------------------------------------- caller-side actions
\* new Model() followed by the assignment of a field
Construct(i, v) ==
    /\ pc[i] = "idle"
    /\ inst' = [inst EXCEPT ![i] = [NewInstance EXCEPT !.props["name"] = v]]
    /\ op' = [op EXCEPT ![i] = "construct"]
    /\ result' = [result EXCEPT ![i] = "ok"]
    /\ trace' = [trace EXCEPT ![i] = <<>>]
    /\ retry' = [retry EXCEPT ![i] = "none"]
    /\ delDone' = [delDone EXCEPT ![i] = FALSE]
    /\ UNCHANGED <<cfg, store, nextId, pc, saveIsNew, saveId, builderVars, extVars>>

\* model.name = v
SetField(i, v) ==
    /\ pc[i] = "idle"
    /\ inst' = [inst EXCEPT ![i].props["name"] = v]
    /\ op' = [op EXCEPT ![i] = "set"]
    /\ result' = [result EXCEPT ![i] = "ok"]
    /\ trace' = [trace EXCEPT ![i] = <<>>]
    /\ UNCHANGED <<cfg, store, nextId, pc, saveIsNew, saveId, retry, delDone, builderVars, extVars>>

\* Model.find(d): first() hydrates through exec(), then createModelFromResult
Find(i, d) ==
    /\ pc[i] = "idle"
    /\ Present(d)
    /\ inst' = [inst EXCEPT ![i] =
                  CreateModelFromResult(ExecInstance(store[d], cfg), cfg)]
    /\ op' = [op EXCEPT ![i] = "find"]
    /\ result' = [result EXCEPT ![i] = "ok"]
    /\ trace' = [trace EXCEPT ![i] = <<"find">>]
    /\ retry' = [retry EXCEPT ![i] = "none"]
    /\ delDone' = [delDone EXCEPT ![i] = FALSE]
    /\ UNCHANGED <<cfg, store, nextId, pc, saveIsNew, saveId, builderVars, extVars>>

\* Model.query().where('_id', d).first() / all() / exec()
QueryExec(i, d) ==
    /\ pc[i] = "idle"
    /\ Present(d)
    /\ inst' = [inst EXCEPT ![i] = ExecInstance(store[d], cfg)]
    /\ op' = [op EXCEPT ![i] = "exec"]
    /\ result' = [result EXCEPT ![i] = "ok"]
    /\ trace' = [trace EXCEPT ![i] = <<"find">>]
    /\ retry' = [retry EXCEPT ![i] = "none"]
    /\ delDone' = [delDone EXCEPT ![i] = FALSE]
    /\ UNCHANGED <<cfg, store, nextId, pc, saveIsNew, saveId, builderVars, extVars>>

\* ------------------------------------------------------------------ save()
SaveStart(i) ==
    /\ pc[i] = "idle"
    /\ pc' = [pc EXCEPT ![i] = "beforeSave"]
    /\ op' = [op EXCEPT ![i] = "save"]
    /\ result' = [result EXCEPT ![i] = "pending"]
    /\ trace' = [trace EXCEPT ![i] = <<>>]
    /\ retry' = [retry EXCEPT ![i] =
                   IF retry[i] = "rejected" THEN "retrying" ELSE "none"]
    /\ saveId' = [saveId EXCEPT ![i] = Undef]
    /\ UNCHANGED <<cfg, store, nextId, inst, saveIsNew, delDone, builderVars, extVars>>

\* a hook of the running operation raised: the operation rejects
Reject(i, why) ==
    /\ pc' = [pc EXCEPT ![i] = "idle"]
    /\ result' = [result EXCEPT ![i] = why]

HookBeforeSave(i, ok) ==
    /\ pc[i] = "beforeSave"
    /\ trace' = [trace EXCEPT ![i] = Append(@, "beforeSave")]
    /\ IF ok
       THEN /\ saveIsNew' = [saveIsNew EXCEPT ![i] = inst[i].isNew]
            /\ pc' = [pc EXCEPT ![i] =
                        IF inst[i].isNew THEN "beforeCreate" ELSE "beforeUpdate"]
            /\ UNCHANGED <<result, retry>>
       ELSE /\ Reject(i, "hookError")
            /\ retry' = [retry EXCEPT ![i] =
                           IF inst[i].isNew THEN "rejected" ELSE "none"]
            /\ UNCHANGED saveIsNew
    /\ UNCHANGED <<cfg, store, nextId, inst, saveId, op, delDone, builderVars, extVars>>

\* faulty variant: the instance is flagged as saved before beforeCreate has passed
HookBeforeCreate_FlagsFirst(i, ok) ==
    /\ pc[i] = "beforeCreate"
    /\ trace' = [trace EXCEPT ![i] = Append(@, "beforeCreate")]
    /\ inst' = [inst EXCEPT ![i].isNew = FALSE]
    /\ IF ok
       THEN /\ pc' = [pc EXCEPT ![i] = "write"]
            /\ UNCHANGED <<result, retry>>
       ELSE /\ Reject(i, "hookError")
            /\ retry' = [retry EXCEPT ![i] = "rejected"]
    /\ UNCHANGED <<cfg, store, nextId, saveIsNew, saveId, op, delDone, builderVars, extVars>>

HookBeforeCreate(i, ok) ==
    /\ pc[i] = "beforeCreate"
    /\ trace' = [trace EXCEPT ![i] = Append(@, "beforeCreate")]
    /\ IF ok
       THEN /\ pc' = [pc EXCEPT ![i] = "write"]
            /\ UNCHANGED <<result, retry>>
       ELSE /\ Reject(i, "hookError")
            /\ retry' = [retry EXCEPT ![i] = "rejected"]
    /\ UNCHANGED <<cfg, store, nextId, inst, saveIsNew, saveId, op, delDone, builderVars, extVars>>

HookBeforeUpdate(i, ok) ==
    /\ pc[i] = "beforeUpdate"
    /\ trace' = [trace EXCEPT ![i] = Append(@, "beforeUpdate")]
    /\ IF ok
       THEN /\ pc' = [pc EXCEPT ![i] = "write"]
            /\ UNCHANGED result
       ELSE Reject(i, "hookError")
    /\ UNCHANGED <<cfg, store, nextId, inst, saveIsNew, saveId, op, retry, delDone,
                   builderVars, extVars>>

\* toObject(), then insert (create path) or update-by-identifier
SaveWrite(i) ==
    LET m == inst[i]
        attributes == ToObject(m.props, cfg)
        id == IF attributes["_id"] # Undef THEN attributes["_id"]
              ELSE ToString(nextId)
    IN
    /\ pc[i] = "write"
    /\ IF saveIsNew[i]
       THEN /\ attributes["_id"] # Undef \/ nextId <= MaxDocs
            /\ IF Present(id)
               THEN \* duplicate key: insertOne throws
                    /\ Reject(i, "storeError")
                    /\ trace' = [trace EXCEPT ![i] = Append(@, "insertFailed")]
                    /\ UNCHANGED <<store, nextId, inst>>
               ELSE /\ store' = [store EXCEPT ![id] =
                                   [attributes EXCEPT !["_id"] = id]]
                    /\ nextId' = IF attributes["_id"] # Undef THEN nextId
                                 ELSE nextId + 1
                    /\ inst' = [inst EXCEPT ![i] = Inserted(m, id)]
                    /\ trace' = [trace EXCEPT ![i] = Append(@, "insert")]
                    /\ pc' = [pc EXCEPT ![i] = "saveRefresh"]
                    /\ UNCHANGED result
       ELSE IF m.pk = Undef
            THEN /\ Reject(i, "pkMissing")
                 /\ UNCHANGED <<store, nextId, inst, trace>>
            ELSE /\ store' = IF Present(m.pk)
                             THEN [store EXCEPT ![m.pk] = SetFields(@, attributes)]
                             ELSE store
                 /\ trace' = [trace EXCEPT ![i] = Append(@, "update")]
                 /\ pc' = [pc EXCEPT ![i] = "saveRefresh"]
                 /\ UNCHANGED <<nextId, inst, result>>
    /\ saveId' = [saveId EXCEPT ![i] =
                    IF saveIsNew[i] /\ ~Present(id) THEN id ELSE @]
    /\ UNCHANGED <<cfg, saveIsNew, op, retry, delDone, builderVars, extVars>>

\* the body of refresh() once its guard has passed
Refreshed(m) ==
    IF Present(m.pk)
    THEN RefreshFound(m, ExecInstance(store[m.pk], cfg), cfg)
    ELSE RefreshMissing(m)

\* refresh() as awaited by save()
SaveRefresh(i) ==
    /\ pc[i] = "saveRefresh"
    /\ IF inst[i].isNew \/ inst[i].pk = Undef
       THEN /\ Reject(i, "pkMissing")
            /\ UNCHANGED <<inst, trace>>
       ELSE /\ inst' = [inst EXCEPT ![i] = Refreshed(@)]
            /\ trace' = [trace EXCEPT ![i] = Append(@, "refresh")]
            /\ pc' = [pc EXCEPT ![i] = "afterSave"]
            /\ UNCHANGED result
    /\ UNCHANGED <<cfg, store, nextId, saveIsNew, saveId, op, retry, delDone, builderVars, extVars>>

\* the first hook save() awaits after the refresh
HookAfterFirst(i, ok) ==
    /\ pc[i] = "afterSave"
    /\ trace' = [trace EXCEPT ![i] = Append(@, "afterSave")]
    /\ IF ok
       THEN /\ pc' = [pc EXCEPT ![i] =
                        IF saveIsNew[i] THEN "afterCreate" ELSE "afterUpdate"]
            /\ UNCHANGED result
       ELSE Reject(i, "hookError")
    /\ UNCHANGED <<cfg, store, nextId, inst, saveIsNew, saveId, op, retry, delDone,
                   builderVars, extVars>>

\* faulty variant: a raising after-hook undoes the insert
HookAfterSecond_Rollback(i, ok) ==
    /\ pc[i] \in {"afterCreate", "afterUpdate"}
    /\ trace' = [trace EXCEPT ![i] = Append(@, pc[i])]
    /\ pc' = [pc EXCEPT ![i] = "idle"]
    /\ result' = [result EXCEPT ![i] = IF ok THEN "ok" ELSE "hookError"]
    /\ IF ~ok /\ saveIsNew[i] /\ Present(inst[i].pk)
       THEN /\ store' = [store EXCEPT ![inst[i].pk] = NoDoc]
            /\ inst' = [inst EXCEPT ![i] = RefreshMissing(@)]
       ELSE UNCHANGED <<store, inst>>
    /\ UNCHANGED <<cfg, nextId, saveIsNew, saveId, op, retry, delDone, builderVars, extVars>>

\* the second hook save() awaits after the refresh; save() then returns
HookAfterSecond(i, ok) ==
    /\ pc[i] \in {"afterCreate", "afterUpdate"}
    /\ trace' = [trace EXCEPT ![i] = Append(@, pc[i])]
    /\ pc' = [pc EXCEPT ![i] = "idle"]
    /\ result' = [result EXCEPT ![i] = IF ok THEN "ok" ELSE "hookError"]
    /\ UNCHANGED <<cfg, store, nextId, inst, saveIsNew, saveId, op, retry, delDone,
                   builderVars, extVars>>

\* ---------------------------------------------------------------- delete()
\* faulty variant: delete() runs beforeDelete before it checks the identifier
DeleteCall_HookFirst(i) ==
    /\ pc[i] = "idle"
    /\ op' = [op EXCEPT ![i] = "delete"]
    /\ trace' = [trace EXCEPT ![i] = <<>>]
    /\ result' = [result EXCEPT ![i] = "pending"]
    /\ pc' = [pc EXCEPT ![i] = "beforeDelete"]
    /\ UNCHANGED <<cfg, store, nextId, inst, saveIsNew, saveId, retry, delDone,
                   builderVars, extVars>>

DeleteCall(i) ==
    /\ pc[i] = "idle"
    /\ op' = [op EXCEPT ![i] = "delete"]
    /\ trace' = [trace EXCEPT ![i] = <<>>]
    /\ IF inst[i].isNew \/ inst[i].pk = Undef
       THEN /\ result' = [result EXCEPT ![i] = "pkMissing"]
            /\ UNCHANGED pc
       ELSE /\ result' = [result EXCEPT ![i] = "pending"]
            /\ pc' = [pc EXCEPT ![i] = "beforeDelete"]
    /\ UNCHANGED <<cfg, store, nextId, inst, saveIsNew, saveId, retry, delDone,
                   builderVars, extVars>>

HookBeforeDelete(i, ok) ==
    /\ pc[i] = "beforeDelete"
    /\ trace' = [trace EXCEPT ![i] = Append(@, "beforeDelete")]
    /\ IF ok
       THEN /\ pc' = [pc EXCEPT ![i] = "deleteWrite"]
            /\ UNCHANGED result
       ELSE Reject(i, "hookError")
    /\ UNCHANGED <<cfg, store, nextId, inst, saveIsNew, saveId, op, retry, delDone,
                   builderVars, extVars>>

\* delete-by-identifier, then the state flip
DeleteWrite(i) ==
    /\ pc[i] = "deleteWrite"
    /\ store' = IF Present(inst[i].pk)
                THEN [store EXCEPT ![inst[i].pk] = NoDoc] ELSE store
    /\ inst' = [inst EXCEPT ![i] = Deleted(@)]
    /\ trace' = [trace EXCEPT ![i] = Append(@, "delete")]
    /\ pc' = [pc EXCEPT ![i] = "afterDelete"]
    /\ UNCHANGED <<cfg, nextId, saveIsNew, saveId, op, result, retry, delDone,
                   builderVars, extVars>>

HookAfterDelete(i, ok) ==
    /\ pc[i] = "afterDelete"
    /\ trace' = [trace EXCEPT ![i] = Append(@, "afterDelete")]
    /\ pc' = [pc EXCEPT ![i] = "idle"]
    /\ result' = [result EXCEPT ![i] = IF ok THEN "ok" ELSE "hookError"]
    /\ delDone' = [delDone EXCEPT ![i] = @ \/ ok]
    /\ UNCHANGED <<cfg, store, nextId, inst, saveIsNew, saveId, op, retry, builderVars, extVars>>

\* --------------------------------------------------------------- refresh()
RefreshCall(i) ==
    /\ pc[i] = "idle"
    /\ op' = [op EXCEPT ![i] = "refresh"]
    /\ trace' = [trace EXCEPT ![i] = <<>>]
    /\ IF inst[i].isNew \/ inst[i].pk = Undef
       THEN /\ result' = [result EXCEPT ![i] = "pkMissing"]
            /\ UNCHANGED pc
       ELSE /\ result' = [result EXCEPT ![i] = "pending"]
            /\ pc' = [pc EXCEPT ![i] = "refresh"]
    /\ UNCHANGED <<cfg, store, nextId, inst, saveIsNew, saveId, retry, delDone,
                   builderVars, extVars>>

RefreshStep(i) ==
    /\ pc[i] = "refresh"
    /\ inst' = [inst EXCEPT ![i] = Refreshed(@)]
    /\ trace' = [trace EXCEPT ![i] = Append(@, "refresh")]
    /\ pc' = [pc EXCEPT ![i] = "idle"]
    /\ result' = [result EXCEPT ![i] = "ok"]
    /\ UNCHANGED <<cfg, store, nextId, saveIsNew, saveId, op, retry, delDone,
                   builderVars, extVars>>

\* ------------------------------------------------------- another caller
\* Model.query().where('_id', d).delete() issued by another caller
QueryDelete(d) ==
    /\ Present(d)
    /\ store' = [store EXCEPT ![d] = NoDoc]
    /\ UNCHANGED <<cfg, nextId, inst, pc, saveIsNew, saveId, op, result, trace, retry,
                   delDone, builderVars, extVars>>

\* instance.$hydrate(row) / $consumeAdapterResult(row) with a stored document
ConsumeAdapterResult(i, d) ==
    /\ pc[i] = "idle"
    /\ Present(d)
    /\ inst' = [inst EXCEPT ![i] =
                  LET p == ProcessFromDatabase(@.props, store[d], cfg)
                  IN [@ EXCEPT !.attrs = store[d], !.props = p,
                               !.isNew = FALSE, !.isPersisted = TRUE,
                               !.isLocal = FALSE, !.hydrated = TRUE,
                               !.original = ToObject(p, cfg)]]
    /\ op' = [op EXCEPT ![i] = "hydrate"]
    /\ result' = [result EXCEPT ![i] = "ok"]
    /\ trace' = [trace EXCEPT ![i] = <<>>]
    /\ retry' = [retry EXCEPT ![i] = "none"]
    /\ UNCHANGED <<cfg, store, nextId, pc, saveIsNew, saveId, delDone, builderVars, extVars>>

Next ==
    \/ \E d \in Ids : QueryDelete(d)
    \/ \E i \in Insts :
        \/ \E v \in UserVals : Construct(i, v)
        \/ \E v \in UserVals : SetField(i, v)
        \/ \E d \in Ids : Find(i, d)
        \/ \E d \in Ids : QueryExec(i, d)
        \/ SaveStart(i)
        \/ \E ok \in BOOLEAN : HookBeforeSave(i, ok)
        \/ \E ok \in BOOLEAN : HookBeforeCreate(i, ok)
        \/ \E ok \in BOOLEAN : HookBeforeUpdate(i, ok)
        \/ SaveWrite(i)
        \/ SaveRefresh(i)
        \/ \E ok \in BOOLEAN : HookAfterFirst(i, ok)
        \/ \E ok \in BOOLEAN : HookAfterSecond(i, ok)
        \/ DeleteCall(i)
        \/ \E ok \in BOOLEAN : HookBeforeDelete(i, ok)
        \/ DeleteWrite(i)
        \/ \E ok \in BOOLEAN : HookAfterDelete(i, ok)
        \/ RefreshCall(i)
        \/ RefreshStep(i)

Spec == Init /\ [][Next]_vars

\* the lifecycle with the Lucid compatibility helper $hydrate in use
CompatNext ==
    \/ Next
    \/ \E i \in Insts, d \in Ids : ConsumeAdapterResult(i, d)

SpecCompat == Init /\ [][CompatNext]_vars

\* ------------------------------------------------- query builder actions
Called(name, key, operator, value) ==
    /\ bcalls < MaxCalls
    /\ bcalls' = bcalls + 1
    /\ blast' = [call |-> name, key |-> key, op |-> operator, v |-> value]
    /\ bprev' = blast

\* where(key, operator, value)
Where(key, operator, value) ==
    /\ Called("where", key, operator, value)
    /\ bfilter' = [bfilter EXCEPT ![key] = WhereEntry(@, operator, value)]
    /\ UNCHANGED <<bor, borArgs, modelVars, extVars>>

\* where(key, value)
WhereValue(key, value) ==
    /\ Called("where", key, "=", value)
    /\ bfilter' = [bfilter EXCEPT ![key] = Bare(value)]
    /\ UNCHANGED <<bor, borArgs, modelVars, extVars>>

\* orWhere(key, operator, value)
OrWhere(key, operator, value) ==
    /\ Called("orWhere", key, operator, value)
    /\ bor' = OrPushed(bor, OrAlternative(key, operator, value))
    /\ borArgs' = Append(borArgs, [key |-> key, op |-> operator, v |-> value])
    /\ UNCHANGED <<bfilter, modelVars, extVars>>

\* orWhere(key, value)
OrWhereValue(key, value) ==
    /\ Called("orWhere", key, "=", value)
    /\ bor' = OrPushed(bor, [EmptyFilter EXCEPT ![key] = Bare(value)])
    /\ borArgs' = Append(borArgs, [key |-> key, op |-> "=", v |-> value])
    /\ UNCHANGED <<bfilter, modelVars, extVars>>

\* where({key: {operator: value}}): the spread of the object over this.filter
WhereObject(key, operator, value) ==
    /\ Called("whereObject", key, operator, value)
    /\ bfilter' = [bfilter EXCEPT ![key] = OpsEntry(Condition(operator, value))]
    /\ UNCHANGED <<bor, borArgs, modelVars, extVars>>

BuilderNext ==
    \E key \in BKeys, value \in BVals :
        \/ \E operator \in WhereOps : Where(key, operator, value)
        \/ \E operator \in RawOps : WhereObject(key, operator, value)
        \/ WhereValue(key, value)
        \/ \E operator \in OrOps : OrWhere(key, operator, value)
        \/ OrWhereValue(key, value)

SpecBuilder == Init /\ [][BuilderNext]_vars

\* ------------------------------------------ actions of a builder and its clone
\* c = b.clone(): spreads of filter, sortOptions and projection, the scalars
CloneCall ==
    /\ ~cloned
    /\ cloned' = TRUE
    /\ filter' = [filter EXCEPT !["c"] = filter["b"]]
    /\ projection' = [projection EXCEPT !["c"] = projection["b"]]
    /\ sortOptions' = [sortOptions EXCEPT !["c"] = sortOptions["b"]]
    /\ limitValue' = [limitValue EXCEPT !["c"] = limitValue["b"]]
    /\ skipValue' = [skipValue EXCEPT !["c"] = skipValue["b"]]
    /\ UNCHANGED <<objects, arrays, chained, caller, notClone>>

\* a chained call on builder x: c exists once clone() has returned it
Chained(x) ==
    /\ x = "c" => cloned
    /\ chained < MaxChain
    /\ chained' = chained + 1
    /\ caller' = x

\* x.where(key, operator, value)
ChainWhere(x, key, operator, value) ==
    LET e == filter[x][key] IN
    /\ Chained(x)
    /\ IF operator = "="
       THEN /\ filter' = [filter EXCEPT ![x][key] = Primitive(value)]
            /\ UNCHANGED objects
       ELSE IF e.kind = "object"
       THEN \* the merge branch assigns into the existing operator object
            /\ objects' = [objects EXCEPT ![e.ref] =
                             WhereEntry(OpsEntry(@), operator, value).ops]
            /\ UNCHANGED filter
       ELSE /\ objects' = [objects EXCEPT ![chained + 1] = Condition(operator, value)]
            /\ filter' = [filter EXCEPT ![x][key] = ObjectRef(chained + 1)]
    /\ UNCHANGED <<cloned, arrays, projection, sortOptions, limitValue, skipValue,
                   notClone>>

\* x.where(key, value)
ChainWhereValue(x, key, value) ==
    /\ Chained(x)
    /\ filter' = [filter EXCEPT ![x][key] = Primitive(value)]
    /\ UNCHANGED <<cloned, objects, arrays, projection, sortOptions, limitValue,
                   skipValue, notClone>>

\* x.orWhere(key, operator, value)
ChainOrWhere(x, key, operator, value) ==
    LET e == filter[x]["$or"] IN
    /\ Chained(x)
    /\ IF e.kind = "array"
       THEN /\ arrays' = [arrays EXCEPT ![e.ref] =
                            OrPushed(@, OrAlternative(key, operator, value))]
            /\ UNCHANGED filter
       ELSE /\ arrays' = [arrays EXCEPT ![chained + 1] =
                            OrPushed(<<>>, OrAlternative(key, operator, value))]
            /\ filter' = [filter EXCEPT ![x]["$or"] = ArrayRef(chained + 1)]
    /\ UNCHANGED <<cloned, objects, projection, sortOptions, limitValue, skipValue,
                   notClone>>

\* x.select(field)
Select(x, field) ==
    /\ Chained(x)
    /\ projection' = [projection EXCEPT ![x] = @ \cup {field}]
    /\ UNCHANGED <<cloned, filter, objects, arrays, sortOptions, limitValue,
                   skipValue, notClone>>

\* x.orderBy(field, direction)
OrderBy(x, field, direction) ==
    /\ Chained(x)
    /\ sortOptions' = [sortOptions EXCEPT ![x][field] =
                         IF direction = "asc" THEN "1" ELSE "-1"]
    /\ UNCHANGED <<cloned, filter, objects, arrays, projection, limitValue,
                   skipValue, notClone>>

\* x.limit(value)
Limit(x, value) ==
    /\ Chained(x)
    /\ limitValue' = [limitValue EXCEPT ![x] = value]
    /\ UNCHANGED <<cloned, filter, objects, arrays, projection, sortOptions,
                   skipValue, notClone>>

\* x.offset(value)
Offset(x, value) ==
    /\ Chained(x)
    /\ skipValue' = [skipValue EXCEPT ![x] = value]
    /\ UNCHANGED <<cloned, filter, objects, arrays, projection, sortOptions,
                   limitValue, notClone>>

CloneNext ==
    \/ CloneCall
    \/ \E x \in Builders :
        \/ \E key \in BKeys, value \in BVals :
            \/ \E operator \in CloneOps : ChainWhere(x, key, operator, value)
            \/ ChainWhereValue(x, key, value)
            \/ \E operator \in CloneOps : ChainOrWhere(x, key, operator, value)
        \/ \E field \in BKeys : Select(x, field)
        \/ \E field \in BKeys, direction \in Directions : OrderBy(x, field, direction)
        \/ \E value \in Limits : Limit(x, value)
        \/ \E value \in Limits : Offset(x, value)

SpecClone == Init /\ [][CloneNext]_vars

\* ------------------------------------------- actions of execute-class calls
\* the call of exec, count, update, delete, insert, insertMany or aggregate,
\* on a builder with (hydrates) or without a model constructor
Invoke(method, hydrates) ==
    /\ qpc = "idle"
    /\ queries < MaxQueries
    /\ queries' = queries + 1
    /\ running' = [method |-> method, hydrates |-> hydrates]
    /\ mark' = Len(events)
    /\ raised' = Undef
    /\ qpc' = "driver"
    /\ UNCHANGED <<events, notEvents>>

\* the catch block: emit the event carrying the error, then rethrow it
Caught(error) ==
    /\ events' = Append(events, QueryEvent(running.method, error))
    /\ raised' = error
    /\ qpc' = "idle"

\* the awaited driver call resolves: the success event is emitted
DriverResolves ==
    /\ qpc = "driver"
    /\ events' = Append(events, QueryEvent(running.method, Undef))
    /\ qpc' = IF running.method = "exec" /\ running.hydrates
              THEN "hydrate" ELSE "idle"
    /\ UNCHANGED <<running, mark, raised, queries, notEvents>>

\* the awaited driver call rejects
DriverRejects ==
    /\ qpc = "driver"
    /\ Caught("driverError")
    /\ UNCHANGED <<running, mark, queries, notEvents>>

\* exec(): results.map builds the model instances, inside the try block;
\* a consume transform or the model constructor may raise
Hydrates(ok) ==
    /\ qpc = "hydrate"
    /\ IF ok
       THEN /\ qpc' = "idle"
            /\ UNCHANGED <<events, raised>>
       ELSE Caught("hydrationError")
    /\ UNCHANGED <<running, mark, queries, notEvents>>

EventsNext ==
    \/ \E method \in Methods, hydrates \in BOOLEAN : Invoke(method, hydrates)
    \/ DriverResolves
    \/ DriverRejects
    \/ \E ok \in BOOLEAN : Hydrates(ok)

SpecEvents == Init /\ [][EventsNext]_vars

\* --------------------------------------------------------- firstOrCreate()
SearchKeys == {"name", "full_name"}      \* a decorated and an undecorated property
DataKey(sk) == IF sk = "name" THEN "full_name" ELSE "name"

\* query.where(key, value).first(): the first stored document whose field
\* key holds value
FirstMatch(key, value) ==
    LET hits == {d \in Ids : Present(d) /\ store[d][key] = value}
        low == CHOOSE n \in 1..MaxDocs :
                   /\ ToString(n) \in hits
                   /\ \A m \in 1..MaxDocs : ToString(m) \in hits => n <= m
    IN IF hits = {} THEN Undef ELSE ToString(low)

\* Model.firstOrCreate({sk: sv}, {DataKey(sk): dv}), dv = Undef for no data:
\* the found document as a model, or create({...search, ...data}) whose
\* save() then runs
FirstOrCreate(i, sk, sv, dv) ==
    LET d == FirstMatch(sk, sv) IN
    /\ pc[i] = "idle"
    /\ Len(focArgs) < MaxFoc
    /\ cfg = "renamed" => (sk = "name" /\ dv = Undef)
    /\ focArgs' = Append(focArgs, [sk |-> sk, sv |-> sv, dv |-> dv])
    /\ focHit' = Append(focHit, d)
    /\ focBefore' = Append(focBefore, store)
    /\ op' = [op EXCEPT ![i] = "firstOrCreate"]
    /\ retry' = [retry EXCEPT ![i] = "none"]
    /\ delDone' = [delDone EXCEPT ![i] = FALSE]
    /\ saveId' = [saveId EXCEPT ![i] = Undef]
    /\ IF d # Undef
       THEN /\ inst' = [inst EXCEPT ![i] =
                          CreateModelFromResult(ExecInstance(store[d], cfg), cfg)]
            /\ trace' = [trace EXCEPT ![i] = <<"find">>]
            /\ result' = [result EXCEPT ![i] = "ok"]
            /\ UNCHANGED pc
       ELSE /\ inst' = [inst EXCEPT ![i] =
                          [NewInstance EXCEPT !.props[sk] = sv,
                                              !.props[DataKey(sk)] = dv]]
            /\ trace' = [trace EXCEPT ![i] = <<>>]
            /\ result' = [result EXCEPT ![i] = "pending"]
            /\ pc' = [pc EXCEPT ![i] = "beforeSave"]
    /\ UNCHANGED <<cfg, store, nextId, saveIsNew, builderVars, cloneVars, eventVars, timeVars,
                   serialVars, transformVars, relVars, lateVars>>

FocNext ==
    \E i \in Insts :
        \/ \E sk \in SearchKeys, sv \in UserVals, dv \in UserVals \cup {Undef} :
              FirstOrCreate(i, sk, sv, dv)
        \/ \E ok \in BOOLEAN : HookBeforeSave(i, ok)
        \/ \E ok \in BOOLEAN : HookBeforeCreate(i, ok)
        \/ SaveWrite(i)
        \/ SaveRefresh(i)
        \/ \E ok \in BOOLEAN : HookAfterFirst(i, ok)
        \/ \E ok \in BOOLEAN : HookAfterSecond(i, ok)

SpecFoc == Init /\ [][FocNext]_vars

\* ------------------------------------------- actions of timestamp columns
\* the wall clock advances
Tick ==
    /\ clock < MaxClock
    /\ clock' = clock + 1
    /\ UNCHANGED <<tcols, installed, wrappers, tinst, tdoc, tpc, passes, called, tlog,
                   notTime>>

\* @column.dateTime(options) on property p, at class definition
DateTime(p) ==
    /\ ~tcols[p].registered
    /\ tcols' = [tcols EXCEPT ![p] = DateTimeOptions(p)]
    /\ wrappers' = IF installed THEN wrappers ELSE wrappers + 1
    /\ installed' = TRUE
    /\ UNCHANGED <<clock, tinst, tdoc, tpc, passes, called, tlog, notTime>>

\* the n-th nested stamping pass of one save() call, all at one clock reading
RECURSIVE StampedTimes(_, _, _, _)
StampedTimes(m, cols, now, n) ==
    IF n = 0 THEN m ELSE StampedTimes(Stamped(m, cols, now), cols, now, n - 1)

\* instance.save(): the installed wrappers run synchronously, then the
\* original save is entered
TimedSaveCall ==
    /\ tpc = "idle"
    /\ \A p \in TimestampProps : tcols[p].registered
    /\ Len(tlog) < MaxSaves
    /\ tinst' = StampedTimes(tinst, tcols, clock, wrappers)
    /\ passes' = wrappers
    /\ called' = clock
    /\ tpc' = "original"
    /\ UNCHANGED <<clock, tcols, installed, wrappers, tdoc, tlog, notTime>>

\* the original save(): a before-hook raises (ok = FALSE), or the attributes
\* are inserted or $set and the instance is refreshed from the store
OriginalSave(ok) ==
    /\ tpc = "original"
    /\ tpc' = "idle"
    /\ IF ok
       THEN LET written == [createdAt |-> tinst.createdAt,
                            updatedAt |-> tinst.updatedAt]
            IN /\ tdoc' = written
               /\ tinst' = [isNew |-> FALSE, createdAt |-> written.createdAt,
                            updatedAt |-> written.updatedAt]
               /\ tlog' = Append(tlog, [at |-> called, doc |-> written,
                                        model |-> tinst',
                                        passes |-> passes, before |-> tdoc])
       ELSE UNCHANGED <<tdoc, tinst, tlog>>
    /\ UNCHANGED <<clock, tcols, installed, wrappers, passes, called, notTime>>

TimeNext ==
    \/ Tick
    \/ \E p \in TimestampProps : DateTime(p)
    \/ TimedSaveCall
    \/ \E ok \in BOOLEAN : OriginalSave(ok)

SpecTime == Init /\ [][TimeNext]_vars

\* ------------------------------------------------ actions of serialization
\* @column(o) on the property, at class definition
Column(o) ==
    /\ ~columnDef.declared
    /\ propValue = Undef
    /\ options' = o
    /\ columnDef' = ColumnDefinition(o)
    /\ UNCHANGED <<propValue, serialized, json, object, notSerial>>

\* instance.password = value
Assign(value) ==
    /\ columnDef.declared
    /\ propValue' = value
    /\ UNCHANGED <<options, columnDef, serialized, json, object, notSerial>>

\* instance.serialize()
SerializeCall ==
    /\ columnDef.declared
    /\ serialized' = [called |-> TRUE, of |-> propValue,
                    out |-> SerializeOutput(columnDef, propValue)]
    /\ UNCHANGED <<options, columnDef, propValue, json, object, notSerial>>

\* instance.toJSON()
ToJSONCall ==
    /\ columnDef.declared
    /\ json' = [called |-> TRUE, of |-> propValue,
                    out |-> SerializeOutput(columnDef, propValue)]
    /\ UNCHANGED <<options, columnDef, propValue, serialized, object, notSerial>>

\* instance.toObject()
ToObjectCall ==
    /\ columnDef.declared
    /\ object' = [called |-> TRUE, of |-> propValue,
                  out |-> ObjectOutput(columnDef, propValue)]
    /\ UNCHANGED <<options, columnDef, propValue, serialized, json, notSerial>>

SerialNext ==
    \/ \E a \in SerializeOpts, b \in SerializeAsOpts, c \in ColumnNameOpts :
          Column([serialize |-> a, serializeAs |-> b, columnName |-> c])
    \/ \E value \in UserVals : Assign(value)
    \/ SerializeCall
    \/ ToJSONCall
    \/ ToObjectCall

SpecSerial == Init /\ [][SerialNext]_vars

\* -------------------------------------------- actions of prepare and consume
\* @column({prepare, consume}) on the property, at class definition
ColumnTransforms(t) ==
    /\ transform = Undef
    /\ transform' = t
    /\ UNCHANGED <<raw, exposed, given, loads, notTransform>>

\* an operation has stored (or found stored) the value st and left the
\* property holding value ex
Loaded(name, st, ex) ==
    /\ Len(loads) < MaxLoads
    /\ raw' = st
    /\ exposed' = ex
    /\ loads' = Append(loads, [via |-> name, raw |-> st, exposed |-> ex,
                               given |-> given'])
    /\ UNCHANGED <<transform, notTransform>>

\* Model.create({property: v}): toObject() prepares, insert, refresh()
CreateRecord(v) ==
    /\ transform # Undef /\ raw = Undef
    /\ v \in Given(transform)
    /\ given' = v
    /\ Loaded("create", Prepare(transform, v),
              Rehydrated(transform, Prepare(transform, v)))

\* instance.property = v; instance.save(): toObject() prepares, $set, refresh()
UpdateRecord(v) ==
    /\ raw # Undef
    /\ v \in Given(transform)
    /\ given' = v
    /\ Loaded("save", Prepare(transform, v),
              Rehydrated(transform, Prepare(transform, v)))

\* Model.find(id) / findBy / firstOrCreate on the stored record
FindRecord ==
    /\ raw # Undef
    /\ UNCHANGED given
    /\ Loaded("find", raw, Rehydrated(transform, raw))

\* instance.refresh()
RefreshRecord ==
    /\ raw # Undef
    /\ UNCHANGED given
    /\ Loaded("refresh", raw, Rehydrated(transform, raw))

\* Model.query().first() / all() / exec()
QueryRecord ==
    /\ raw # Undef
    /\ UNCHANGED given
    /\ Loaded("exec", raw, Hydrated(transform, raw))

TransformNext ==
    \/ \E t \in Transforms : ColumnTransforms(t)
    \/ \E v \in Given("case") \cup Given("hundredths") : CreateRecord(v)
    \/ \E v \in Given("case") \cup Given("hundredths") : UpdateRecord(v)
    \/ FindRecord
    \/ RefreshRecord
    \/ QueryRecord

SpecTransform == Init /\ [][TransformNext]_vars

\* ------------------------------------------------------ actions of relations
\* a relation operation is called on the relation of owner o
RelationCalled(kind, name, o, ids, isGiven) ==
    /\ relPc = "idle"
    /\ observed' = "none"
    /\ replaced' = IF /\ name = "sync" /\ rel.name = "sync"
                      /\ rel.owner = o /\ rel.outcome = "ok"
                   THEN rel.ids ELSE NotReplaced

\* exec, exists, pivotData, updatePivotData of BelongsToMany and exec, save,
\* create, associate, dissociate, delete of HasMany and HasOne: the guard on
\* the local-key value, then the store call
GuardedCall(kind, name, o) ==
    /\ RelationCalled(kind, name, o, <<>>, FALSE)
    /\ rel' = [kind |-> kind, name |-> name, owner |-> o, ids |-> <<>>,
               given |-> FALSE,
               outcome |-> IF LocalKeyValue(o) = Undef
                              /\ OnMissingKey(kind, name) = "throws"
                           THEN "error" ELSE "ok",
               issued |-> LocalKeyValue(o) # Undef]
    /\ UNCHANGED <<pivot, relPc, pending, notRel>>

\* attach(ids): the guard, then createMany over one pivot record per id
Attach(o, ids) ==
    /\ RelationCalled("belongsToMany", "attach", o, ids, TRUE)
    /\ IF LocalKeyValue(o) = Undef
       THEN /\ rel' = [kind |-> "belongsToMany", name |-> "attach", owner |-> o,
                       ids |-> ids, given |-> TRUE,
                       outcome |-> IF OnMissingKey("belongsToMany", "attach") = "throws"
                                   THEN "error" ELSE "ok",
                       issued |-> FALSE]
            /\ UNCHANGED <<relPc, pending>>
       ELSE /\ rel' = [kind |-> "belongsToMany", name |-> "attach", owner |-> o,
                       ids |-> ids, given |-> TRUE,
                       outcome |-> IF ids = <<>> THEN "ok" ELSE "pending",
                       issued |-> FALSE]
            /\ pending' = ids
            /\ relPc' = IF ids = <<>> THEN "idle" ELSE "attaching"
    /\ UNCHANGED <<pivot, notRel>>

\* faulty variant: a rejected save() removes what the createMany has inserted
AttachInsert_RollsBack(ok) ==
    LET o == rel.owner
        r == Head(pending)
    IN
    /\ relPc = "attaching"
    /\ pending # <<>>
    /\ ok => pivot[o][r] < MaxCopies /\ Stored(pivot[o]) < MaxRecords
    /\ pivot' = IF ok THEN [pivot EXCEPT ![o][r] = @ + 1]
                ELSE [pivot EXCEPT ![o] =
                        [x \in Related |-> IF x \in IdsIn(rel.ids) THEN 0 ELSE @[x]]]
    /\ pending' = Tail(pending)
    /\ rel' = [rel EXCEPT !.issued = TRUE,
                          !.outcome = IF ~ok \/ rel.outcome = "error" THEN "error"
                                      ELSE IF Tail(pending) = <<>> THEN "ok"
                                      ELSE "pending"]
    /\ relPc' = IF Tail(pending) = <<>> THEN "idle" ELSE "attaching"
    /\ UNCHANGED <<observed, replaced, notRel>>

\* one save() of createMany settles: the pivot record is inserted, or the
\* save rejects and with it the attach
AttachInsert(ok) ==
    LET o == rel.owner
        r == Head(pending)
        failed == ~ok \/ rel.outcome = "error"
    IN
    /\ relPc = "attaching"
    /\ pending # <<>>
    /\ ok => pivot[o][r] < MaxCopies /\ Stored(pivot[o]) < MaxRecords
    /\ pivot' = IF ok THEN [pivot EXCEPT ![o][r] = @ + 1] ELSE pivot
    /\ pending' = Tail(pending)
    /\ rel' = [rel EXCEPT !.issued = TRUE,
                          !.outcome = IF failed THEN "error"
                                      ELSE IF Tail(pending) = <<>> THEN "ok"
                                      ELSE "pending"]
    /\ relPc' = IF Tail(pending) = <<>> THEN "idle" ELSE "attaching"
    /\ UNCHANGED <<observed, replaced, notRel>>

\* detach(ids) and, with isGiven = FALSE, detach()
Detach(o, isGiven, ids) ==
    /\ RelationCalled("belongsToMany", "detach", o, ids, isGiven)
    /\ rel' = [kind |-> "belongsToMany", name |-> "detach", owner |-> o,
               ids |-> ids, given |-> isGiven, outcome |-> "ok",
               issued |-> LocalKeyValue(o) # Undef]
    /\ pivot' = IF LocalKeyValue(o) = Undef THEN pivot
                ELSE [pivot EXCEPT ![o] = Detached(@, isGiven, ids)]
    /\ UNCHANGED <<relPc, pending, notRel>>

\* faulty variant: sync() attaches without detaching first
SyncCall_KeepsOld(o, ids) ==
    /\ RelationCalled("belongsToMany", "sync", o, ids, TRUE)
    /\ rel' = [kind |-> "belongsToMany", name |-> "sync", owner |-> o,
               ids |-> ids, given |-> TRUE,
               outcome |-> IF ids = <<>> THEN "ok" ELSE "pending",
               issued |-> FALSE]
    /\ relPc' = IF ids = <<>> THEN "idle" ELSE "syncAttach"
    /\ UNCHANGED <<pivot, pending, notRel>>

\* sync(ids) up to its attach step: detach(), then the test of ids
SyncCall(o, ids) ==
    /\ RelationCalled("belongsToMany", "sync", o, ids, TRUE)
    /\ pivot' = IF LocalKeyValue(o) = Undef THEN pivot
                ELSE [pivot EXCEPT ![o] = Detached(@, FALSE, <<>>)]
    /\ rel' = [kind |-> "belongsToMany", name |-> "sync", owner |-> o,
               ids |-> ids, given |-> TRUE,
               outcome |-> IF ids = <<>> THEN "ok" ELSE "pending",
               issued |-> LocalKeyValue(o) # Undef]
    /\ relPc' = IF ids = <<>> THEN "idle" ELSE "syncAttach"
    /\ UNCHANGED <<pending, notRel>>

\* the attach(ids) step of sync(ids)
SyncAttach ==
    /\ relPc = "syncAttach"
    /\ IF LocalKeyValue(rel.owner) = Undef
       THEN /\ rel' = [rel EXCEPT !.outcome =
                          IF OnMissingKey("belongsToMany", "attach") = "throws"
                          THEN "error" ELSE "ok"]
            /\ relPc' = "idle"
            /\ UNCHANGED pending
       ELSE /\ pending' = rel.ids
            /\ relPc' = "attaching"
            /\ UNCHANGED rel
    /\ UNCHANGED <<pivot, observed, replaced, notRel>>

\* another caller runs the relation's exec() for the owner of the call that is
\* in progress, between two of its awaited steps
ConcurrentExec ==
    /\ relPc # "idle"
    /\ rel.owner \in SavedOwners
    /\ observed' = IF Stored(pivot[rel.owner]) = 0 THEN "empty" ELSE "records"
    /\ UNCHANGED <<pivot, rel, relPc, pending, replaced, notRel>>

RelNext ==
    \/ \E o \in Owners :
        \/ \E kind \in RelationKinds : \E name \in GuardedOps(kind) :
              GuardedCall(kind, name, o)
        \/ \E ids \in IdLists : Attach(o, ids)
        \/ \E ids \in IdLists : Detach(o, TRUE, ids)
        \/ Detach(o, FALSE, <<>>)
        \/ \E ids \in IdLists : SyncCall(o, ids)
    \/ \E ok \in BOOLEAN : AttachInsert(ok)
    \/ SyncAttach
    \/ ConcurrentExec

\* the relations of a model whose columns are stored under their own names
RelInit == Init /\ cfg = "plain"

SpecRel == RelInit /\ [][RelNext]_vars

\* ---------------------------------------------------- actions of connection
\* MongoConnection.connect() up to its await: nothing when the connection is
\* ready, else a new client whose connect() is awaited
ConnectStart(call) ==
    /\ isReady \/ clients < MaxClients
    /\ asked' = [call |-> call, isConnected |-> IsConnected, started |-> ~isReady]
    /\ IF isReady
       THEN UNCHANGED <<clients, inflight, client>>
       ELSE /\ clients' = clients + 1
            /\ client' = clients + 1
            /\ inflight' = inflight \cup {clients + 1}
    /\ UNCHANGED <<isReady, isClosed, connState, nodeState, connected, notConn>>

\* database.connection(name): manager.connect(name) unless isConnected(name)
DatabaseConnection ==
    IF IsConnected
    THEN /\ asked' = [call |-> "database.connection", isConnected |-> TRUE,
                      started |-> FALSE]
         /\ UNCHANGED <<clients, inflight, client, isReady, isClosed, connState,
                        nodeState, connected, notConn>>
    ELSE ConnectStart("database.connection")

\* manager.connect(name): connection.connect() unless isConnected(name)
ManagerConnect ==
    IF IsConnected
    THEN /\ asked' = [call |-> "manager.connect", isConnected |-> TRUE,
                      started |-> FALSE]
         /\ UNCHANGED <<clients, inflight, client, isReady, isClosed, connState,
                        nodeState, connected, notConn>>
    ELSE ConnectStart("manager.connect")

\* connection.connect() called on the connection itself
ConnectionConnect == ConnectStart("connection.connect")

\* the awaited client.connect() of attempt c resolves: the connection becomes
\* ready and emits connect; handleConnect assigns state on what manager.get()
\* returns, the MongoConnection
ClientConnects(c) ==
    /\ c \in inflight
    /\ inflight' = inflight \ {c}
    /\ isReady' = TRUE
    /\ isClosed' = FALSE
    /\ connState' = "open"
    /\ connected' = TRUE
    /\ UNCHANGED <<clients, client, nodeState, asked, notConn>>

\* the awaited client.connect() of attempt c rejects: the error event
ClientFails(c) ==
    /\ c \in inflight
    /\ inflight' = inflight \ {c}
    /\ UNCHANGED <<clients, client, isReady, isClosed, connState, nodeState,
                   connected, asked, notConn>>

\* connection.disconnect() / manager.close(name)
Disconnect ==
    /\ client # 0 /\ ~isClosed
    /\ isReady' = FALSE
    /\ isClosed' = TRUE
    /\ connState' = "closed"
    /\ connected' = FALSE
    /\ UNCHANGED <<clients, inflight, client, nodeState, asked, notConn>>

ConnNext ==
    \/ DatabaseConnection
    \/ ManagerConnect
    \/ ConnectionConnect
    \/ \E c \in 1..MaxClients : ClientConnects(c)
    \/ \E c \in 1..MaxClients : ClientFails(c)
    \/ Disconnect

SpecConn == Init /\ [][ConnNext]_vars

\* --------------------------------------------------- actions of raw objects
\* where(query) with an object: the object spread over the filter
WhereRaw(query) ==
    /\ rawQuery' = query
    /\ sent' = ProcessMongoQuery(query)
    /\ rawVia' = "where"
    /\ UNCHANGED notRaw

\* aggregate([{stage: query}])
Aggregate(stage, query) ==
    /\ rawQuery' = query
    /\ sent' = IF stage = "$match" THEN ProcessMongoQuery(query) ELSE query
    /\ rawVia' = stage
    /\ UNCHANGED notRaw

RawNext ==
    \E query \in [RawKeys -> RawValues] :
        \/ WhereRaw(query)
        \/ \E stage \in Stages : Aggregate(stage, query)

SpecRaw == Init /\ [][RawNext]_vars

\* ------------------------------------------- actions of concurrent callers
\* caller p calls Model.firstOrCreate(search, data) or updateOrCreate(search,
\* data), every caller with the same search
OrCreateCall(p, kind) ==
    /\ racePc[p] = "idle"
    /\ raceKind' = [raceKind EXCEPT ![p] = kind]
    /\ racePc' = [racePc EXCEPT ![p] = "first"]
    /\ UNCHANGED <<matching, raceSaw, notRace>>

\* the awaited query.first() of caller p returns
QueryFirst(p) ==
    /\ racePc[p] = "first"
    /\ raceSaw' = [raceSaw EXCEPT ![p] = IF matching > 0 THEN "model" ELSE "null"]
    /\ racePc' = [racePc EXCEPT ![p] =
                    IF matching = 0 THEN "create"
                    ELSE IF raceKind[p] = "updateOrCreate" THEN "save"
                    ELSE "done"]
    /\ UNCHANGED <<matching, raceKind, notRace>>

\* updateOrCreate: Object.assign(model, data); await model.save()
SaveFound(p) ==
    /\ racePc[p] = "save"
    /\ racePc' = [racePc EXCEPT ![p] = "done"]
    /\ UNCHANGED <<matching, raceKind, raceSaw, notRace>>

\* this.create({...search, ...data}): the insert of a new document
CreateMissing(p) ==
    /\ racePc[p] = "create"
    /\ matching' = matching + 1
    /\ racePc' = [racePc EXCEPT ![p] = "done"]
    /\ UNCHANGED <<raceKind, raceSaw, notRace>>

RaceNext ==
    \E p \in Callers :
        \/ \E kind \in OrCreate : OrCreateCall(p, kind)
        \/ QueryFirst(p)
        \/ SaveFound(p)
        \/ CreateMissing(p)

SpecRace == Init /\ [][RaceNext]_vars

TypeOK ==
    /\ cfg \in Configs
    /\ nextId \in 1..(MaxDocs + 1)
    /\ \A i \in Insts : Len(trace[i]) <= 6

\* ------------------------------------------------------------------ claims
Returned(i, o) == pc[i] = "idle" /\ op[i] = o
Count(seq, e) == Cardinality({n \in 1..Len(seq) : seq[n] = e})

\* C1: every save() that returns has fired its hooks in the documented order,
\* beforeSave, beforeCreate, afterCreate, afterSave on a new instance and
\* beforeSave, beforeUpdate, afterUpdate, afterSave on a persisted one, with
\* the store write and the refresh between the before- and the after-hooks.
C1_HookOrder ==
    \A i \in Insts :
        (Returned(i, "save") /\ result[i] = "ok") =>
            trace[i] = IF saveIsNew[i]
                       THEN <<"beforeSave", "beforeCreate", "insert", "refresh",
                              "afterCreate", "afterSave">>
                       ELSE <<"beforeSave", "beforeUpdate", "update", "refresh",
                              "afterUpdate", "afterSave">>

\* C2: a save() on a new instance that beforeSave or beforeCreate rejects has
\* run no later hook and issued no insert, and leaves the instance new with no
\* identifier; the save() after it takes the create path and, when it returns,
\* has inserted exactly one document.
C2_BeforeHookRejects ==
    \A i \in Insts :
        /\ (retry[i] = "rejected" /\ Returned(i, "save")) =>
              /\ result[i] = "hookError"
              /\ trace[i] \in {<<"beforeSave">>, <<"beforeSave", "beforeCreate">>}
              /\ inst[i].isNew
              /\ ~inst[i].isPersisted
              /\ inst[i].pk = Undef
        /\ (retry[i] = "retrying" /\ pc[i] \notin {"idle", "beforeSave"}) =>
              saveIsNew[i]
        /\ (retry[i] = "retrying" /\ Returned(i, "save") /\ result[i] = "ok") =>
              /\ saveIsNew[i]
              /\ Count(trace[i], "insert") = 1
              /\ Count(trace[i], "update") = 0

C2_Witness ==
    \E i \in Insts :
        retry[i] = "retrying" /\ Returned(i, "save") /\ result[i] = "ok"

\* C3: when an after-hook of a create-path save() raises, that step changes
\* neither the store nor the instance: the inserted document, unless another
\* caller removed it, is still stored and the instance is still persisted
\* under the identifier the insert returned.
AfterHookRaises(i) ==
    /\ pc[i] \in {"afterSave", "afterCreate"}
    /\ saveIsNew[i]
    /\ result'[i] = "hookError"

C3_NoRollback ==
    [][\A i \in Insts :
          AfterHookRaises(i) =>
              /\ store' = store
              /\ inst'[i] = inst[i]
              /\ Present(saveId[i]) =>
                    /\ inst'[i].isPersisted
                    /\ ~inst'[i].isNew
                    /\ inst'[i].pk = saveId[i]]_vars

C3_Witness ==
    \E i \in Insts :
        /\ Returned(i, "save") /\ result[i] = "hookError" /\ saveIsNew[i]
        /\ Count(trace[i], "insert") = 1
        /\ Present(saveId[i])
        /\ inst[i].isPersisted /\ inst[i].pk = saveId[i]

C5_DeletedIsTerminal ==
    \A i \in Insts :
        delDone[i] =>
            /\ inst[i].isDeleted
            /\ ~inst[i].isNew
            /\ ~inst[i].isPersisted
            /\ inst[i].pk # Undef

\* C6: delete(), refresh() and the update path of save() reject with
\* ModelPrimaryKeyMissing on an instance that is new or has no identifier,
\* having issued no store call (delete() not even beforeDelete), and they go
\* on to their store call only on an instance that has an identifier.
StoreCalls == {"insert", "insertFailed", "update", "delete", "refresh", "find"}

C6_PrimaryKeyGuard ==
    \A i \in Insts :
        /\ result[i] = "pkMissing" =>
              /\ \A n \in 1..Len(trace[i]) : trace[i][n] \notin StoreCalls
              /\ op[i] \in {"delete", "refresh"} => trace[i] = <<>>
              /\ op[i] = "save" => trace[i] = <<"beforeSave", "beforeUpdate">>
              /\ inst[i].isNew \/ inst[i].pk = Undef
        /\ pc[i] \in {"beforeDelete", "deleteWrite", "refresh"} =>
              ~inst[i].isNew /\ inst[i].pk # Undef
        /\ (pc[i] = "saveRefresh" /\ ~saveIsNew[i]) => inst[i].pk # Undef

\* the update path of save() rejected for a missing identifier
C6_Witness ==
    \E i \in Insts :
        Returned(i, "save") /\ result[i] = "pkMissing" /\ ~inst[i].isNew

\* C7: a constructed, unsaved instance is dirty, and an instance on which
\* save() or refresh() has just succeeded, and whose document was found, is
\* not dirty, for every column configuration.
C7_CleanAfterLoad ==
    \A i \in Insts :
        /\ Returned(i, "construct") => IsDirty(inst[i])
        /\ ((Returned(i, "save") \/ Returned(i, "refresh"))
              /\ result[i] = "ok" /\ inst[i].isPersisted) => ~IsDirty(inst[i])

\* C8: an instance returned by exec(), all() or first() is persisted and not
\* new, carries the identifier of its document, and has the object form of
\* its hydrated fields as dirty-check baseline.
C8_ExecInstancePersisted ==
    \A i \in Insts :
        Returned(i, "exec") =>
            /\ ~inst[i].isNew
            /\ inst[i].isPersisted
            /\ inst[i].pk = inst[i].attrs["_id"] /\ inst[i].pk # Undef
            /\ inst[i].original = ToObject(inst[i].props, cfg)

\* the store operator keys a where(key, operator, value) call writes
Written(operator, value) ==
    {o \in StoreOps : Condition(operator, value)[o] # Undef}

Holds(entry, operator, value) ==
    /\ entry.kind = "ops"
    /\ \A o \in Written(operator, value) :
          entry.ops[o] = Condition(operator, value)[o]

\* the last two calls were where() on one key with different non-'=' operators
TwoOperatorWheres ==
    /\ blast.call = "where" /\ bprev.call = "where"
    /\ blast.key = bprev.key
    /\ blast.op # "=" /\ bprev.op # "=" /\ blast.op # bprev.op

LastEqualsReplaces ==
    (blast.call = "where" /\ blast.op = "=") =>
        bfilter[blast.key] = Bare(blast.v)

WhereKeepsOtherKeys ==
    [][(bcalls' = bcalls + 1 /\ blast'.call = "where") =>
          /\ bor' = bor
          /\ \A k \in BKeys \ {blast'.key} : bfilter'[k] = bfilter[k]]_vars

\* C9 as stated: after where(k, op1, v1) and where(k, op2, v2) with any two
\* different non-'=' operators the entry of k holds both conditions; a
\* where(k, '=', v) leaves the bare value v; other keys are never touched.
C9_AnyTwoOperatorsMerge ==
    /\ [](TwoOperatorWheres =>
            /\ Holds(bfilter[blast.key], bprev.op, bprev.v)
            /\ Holds(bfilter[blast.key], blast.op, blast.v))
    /\ []LastEqualsReplaces
    /\ WhereKeepsOtherKeys

\* C9 amended: the entry of k holds both conditions when the two operators
\* translate to different store operator keys; a where(k, '=', v) leaves the
\* bare value v; other keys are never touched.
C9_DistinctKeysMerge ==
    /\ []((TwoOperatorWheres
             /\ Written(bprev.op, bprev.v) \cap Written(blast.op, blast.v) = {}) =>
            /\ Holds(bfilter[blast.key], bprev.op, bprev.v)
            /\ Holds(bfilter[blast.key], blast.op, blast.v))
    /\ []LastEqualsReplaces
    /\ WhereKeepsOtherKeys

C9_Witness ==
    /\ TwoOperatorWheres
    /\ Written(bprev.op, bprev.v) \cap Written(blast.op, blast.v) = {}
    /\ bprev.v # blast.v
    /\ \E k \in BKeys \ {blast.key} : bfilter[k].kind # "none"

\* C10: the $or array holds one alternative per orWhere call, in call order;
\* an orWhere call appends one alternative, keeps the earlier ones and leaves
\* every other filter entry as it was.
OrExpected(a) ==
    [EmptyFilter EXCEPT
        ![a.key] = IF a.op = "=" THEN Bare(a.v)
                   ELSE OpsEntry(Condition(a.op, a.v))]

C10_OrWhereAppends ==
    /\ [](/\ Len(bor) = Len(borArgs)
          /\ \A n \in 1..Len(bor) : bor[n] = OrExpected(borArgs[n]))
    /\ [][(bcalls' = bcalls + 1 /\ blast'.call = "orWhere") =>
             /\ bfilter' = bfilter
             /\ Len(bor') = Len(bor) + 1
             /\ SubSeq(bor', 1, Len(bor)) = bor]_vars

C10_Witness ==
    /\ Len(bor) = 2 /\ bor[1] # bor[2]
    /\ blast.call = "orWhere"
    /\ \E k \in BKeys : bfilter[k].kind # "none"

\* the condition a call states, evaluated on a document
CallSatisfied(c, doc) ==
    EntryMatches(IF c.op = "=" THEN Bare(c.v) ELSE OpsEntry(Condition(c.op, c.v)),
                 doc[c.key])

\* C11: a query built as where(A).orWhere(B) returns exactly the documents
\* that satisfy A or satisfy B.
C11_WhereOrReturnsEither ==
    (bcalls = 2 /\ bprev.call = "where" /\ blast.call = "orWhere") =>
        \A doc \in Documents :
            StoreMatches(bfilter, bor, doc) <=>
                (CallSatisfied(bprev, doc) \/ CallSatisfied(blast, doc))

\* C12: after c = b.clone(), a where, orWhere, select, orderBy, limit or
\* offset call on one of the two builders leaves the other builder's filter,
\* projection, sort, limit and skip as they were.
C12_CloneIndependent ==
    [][\A x \in Builders :
          (cloned /\ chained' = chained + 1 /\ caller' = x) =>
              BuilderView(Other(x))' = BuilderView(Other(x))]_vars

\* C13: every call of exec, count, update, delete, insert, insertMany or
\* aggregate that has returned or raised has emitted exactly one
\* mongodb:query event; when it raised, that event carries the error raised,
\* and when it returned, the event carries none.
C13_OneEventPerCall ==
    (qpc = "idle" /\ running # NoQuery) =>
        /\ Len(events) = mark + 1
        /\ events[Len(events)] = QueryEvent(running.method, raised)

DocsIn(st) == {d \in Ids : st[d]["_id"] = d}
SameSearch(a, b) == a.sk = b.sk /\ a.sv = b.sv

\* call n of firstOrCreate found its document or inserted one
Settled(n) ==
    \/ focHit[n] # Undef
    \/ n < Len(focBefore) /\ DocsIn(focBefore[n + 1]) # DocsIn(focBefore[n])
    \/ n = Len(focBefore) /\ DocsIn(store) # DocsIn(focBefore[n])

\* C14: of two successive firstOrCreate calls with the same search, the first
\* having found or created its document, the second finds that document: it
\* leaves the collection as it was and returns the stored record, its data
\* not applied.
C14_SecondCallFinds ==
    \A n \in 1..(Len(focArgs) - 1) :
        (SameSearch(focArgs[n], focArgs[n + 1]) /\ Settled(n)) =>
            /\ focHit[n + 1] # Undef
            /\ n + 1 = Len(focArgs) =>
                  /\ store = focBefore[n + 1]
                  /\ \A i \in Insts :
                        /\ pc[i] = "idle" /\ result[i] = "ok"
                        /\ inst[i] = CreateModelFromResult(
                                        ExecInstance(store[focHit[n + 1]], cfg), cfg)

StorageName == IF options.columnName # Undef THEN options.columnName ELSE Property

\* r was returned for an instance whose property held a value
Returns(r) == r.called /\ r.of # Undef

\* C16: a column declared with serialize: false is absent from what
\* serialize() and toJSON() return and present under its storage name in what
\* toObject() returns; a column declared with serializeAs: 'x' is under key x,
\* and not under its property name, in what serialize() and toJSON() return,
\* and under its storage name in what toObject() returns.
C16_SerializationPolicy ==
    /\ \A r \in {serialized, json} :
          Returns(r) =>
              /\ options.serialize = "false" => r.out = EmptyOutput
              /\ (options.serialize # "false"
                    /\ options.serializeAs = "custom_password") =>
                    /\ r.out["custom_password"] = r.of
                    /\ r.out[Property] = Undef
    /\ (Returns(object)
          /\ (options.serialize = "false" \/ options.serializeAs = "custom_password")) =>
          object.out = [EmptyOutput EXCEPT ![StorageName] = object.of]

\* C17: creating or saving a record stores prepare(value), and every load of
\* the record, by create, save, find, refresh or a query, exposes
\* consume(stored value) on the instance.
C17_RoundTrip ==
    \A n \in 1..Len(loads) :
        /\ loads[n].via \in {"create", "save"} =>
              loads[n].raw = Prepare(transform, loads[n].given)
        /\ loads[n].exposed = Consume(transform, loads[n].raw)


\* ------------------------------------------------------------------ C18
SyncReturned ==
    /\ rel.name = "sync"
    /\ relPc = "idle"
    /\ rel.outcome = "ok"
    /\ rel.owner \in SavedOwners

\* C18: sync(ids) is a full replace. Once sync(ids) has returned on an owner,
\* the pivot records of that owner are exactly one per element of ids, whatever
\* an earlier sync or attach had left there, and no step of a sync changes the
\* pivot records of another owner.
C18_SyncReplaces ==
    /\ [](SyncReturned =>
            \A r \in Related : pivot[rel.owner][r] = Count(rel.ids, r))
    /\ [][rel'.name = "sync" =>
            \A o \in SavedOwners \ {rel'.owner} : pivot'[o] = pivot[o]]_vars

\* sync(["a","b"]) and then sync(["c"]) have returned on u1 while u2 has records
C18_Witness ==
    /\ SyncReturned
    /\ rel.owner = "u1"
    /\ rel.ids = <<"c">>
    /\ replaced = <<"a", "b">>
    /\ pivot["u1"] = [r \in Related |-> IF r = "c" THEN 1 ELSE 0]
    /\ \E r \in Related : pivot["u2"][r] > 0

\* ------------------------------------------------------------------ C19
DetachStep ==
    /\ relPc = "idle"
    /\ relPc' = "idle"
    /\ rel'.name = "detach"
    /\ rel'.owner \in SavedOwners

\* C19: detach(ids) deletes exactly the pivot records of this owner whose
\* related id is in ids and detach() deletes exactly all pivot records of this
\* owner; the records of other owners, and with ids given those of this owner
\* for related ids outside ids, are left unchanged.
C19_DetachExact ==
    [][DetachStep =>
        /\ \A o \in SavedOwners \ {rel'.owner} : pivot'[o] = pivot[o]
        /\ \A r \in Related :
              pivot'[rel'.owner][r] =
                 IF rel'.given /\ r \notin IdsIn(rel'.ids)
                 THEN pivot[rel'.owner][r] ELSE 0]_vars

\* ------------------------------------------------------------------ C20
MissingKeyCall == rel.name # Undef /\ LocalKeyValue(rel.owner) = Undef
Raising == {"create", "save", "associate", "attach", "updatePivotData"}

\* C20 as stated: every relation operation called on an owner without a
\* local-key value fails with an error and issues no store call.
C20_AllFail ==
    [](MissingKeyCall /\ relPc = "idle" =>
          rel.outcome = "error" /\ ~rel.issued)

\* C20: no relation operation called on an owner without a local-key value
\* issues a store call. create, save, associate, attach, updatePivotData and
\* sync with a non-empty list then fail with an error; exec, dissociate,
\* delete, detach, exists, pivotData and sync with an empty list return their
\* empty result without an error.
C20_MissingKey ==
    /\ [](MissingKeyCall => ~rel.issued)
    /\ [](MissingKeyCall /\ relPc = "idle" =>
            (rel.outcome = "error" <=>
                \/ rel.name \in Raising
                \/ rel.name = "sync" /\ rel.ids # <<>>))

\* sync(["a","b"]) on an unsaved owner: its detach returned without an error
\* or a store call, its attach then failed
C20_Witness ==
    /\ MissingKeyCall
    /\ rel.name = "sync"
    /\ rel.ids = <<"a", "b">>
    /\ relPc = "idle"
    /\ rel.outcome = "error"
    /\ ~rel.issued
    /\ \E o \in SavedOwners, r \in Related : pivot[o][r] > 0


\* ------------------------------------------------------------------ C21
InSync == rel.name = "sync" /\ rel.owner \in SavedOwners
BetweenSteps == InSync /\ relPc = "syncAttach"

\* the pivot records for r that the attach step of the sync has tried to save
Attempted(r) ==
    IF relPc = "syncAttach" THEN 0 ELSE Count(rel.ids, r) - Count(pending, r)

\* C21: sync(ids) is not atomic. Between its detach step and its attach step
\* the store holds no pivot record for the owner and a concurrent reader sees
\* none; at every point of a sync, also after its attach step has failed, the
\* owner holds only records this sync has inserted, none of its previous ones.
C21_SyncNotAtomic ==
    /\ [](BetweenSteps => Stored(pivot[rel.owner]) = 0)
    /\ [](BetweenSteps /\ observed # "none" => observed = "empty")
    /\ [](InSync => \A r \in Related : pivot[rel.owner][r] <= Attempted(r))

\* sync(["c"]) after sync(["a","b"]) on one owner: a concurrent reader saw no
\* record, the attach step failed, and the owner is left with none
C21_Witness ==
    /\ InSync
    /\ relPc = "idle"
    /\ rel.ids = <<"c">>
    /\ replaced = <<"a", "b">>
    /\ observed = "empty"
    /\ rel.outcome = "error"
    /\ Stored(pivot[rel.owner]) = 0

\* ------------------------------------------------------------------ C30
\* C30: for every owner and every related id the pivot collection holds at
\* most one pivot record, also after a repeated attach of the same id and
\* after an attach whose list names the id twice.
C30_OnePivotRecord ==
    \A o \in SavedOwners, r \in Related : pivot[o][r] <= 1


\* ------------------------------------------------------------------ C24
\* C24: each load of a stored document into an instance through find, findBy,
\* firstOrCreate, refresh or save applies the column's consume exactly once:
\* the property holds consume(stored), never consume(consume(stored)).
C24_ConsumedOnce ==
    \A n \in 1..Len(loads) :
        loads[n].via \in {"create", "save", "find", "refresh"} =>
            loads[n].exposed = Consume(transform, loads[n].raw)


\* ------------------------------------------------------------------ C28
\* C28: whenever save() has completed without raising, the instance is
\* persisted (not new) and has an identifier, also when its document was
\* removed from the store by another caller before or during that save().
C28_SavedIsPersisted ==
    \A i \in Insts :
        (Returned(i, "save") /\ result[i] = "ok") =>
            /\ ~inst[i].isNew
            /\ inst[i].isPersisted
            /\ inst[i].pk # Undef


\* ------------------------------------------------------------------ C22
\* C22: from the moment the connection has connected (its connect event has
\* fired) until it disconnects, isConnected(name) is true, and no call of
\* manager.connect or database.connection creates a client for it.
C22_ConnectedIsKnown ==
    /\ [](connected => IsConnected)
    /\ [][connected => clients' = clients]_vars

\* ------------------------------------------------------------------ C27
\* C27: at most one connect attempt of the connection is in flight at any
\* time, and no client is created while an attempt is in flight.
C27_OneAttempt ==
    /\ [](Cardinality(inflight) <= 1)
    /\ [][clients' # clients => inflight = {}]_vars


\* ------------------------------------------------------------------ C23
RawObjectStep == blast'.call = "whereObject" /\ bcalls' = bcalls + 1

\* C23: where(rawFilterObject) keeps the conditions added before it: every
\* document the filter matches after the call satisfies the filter as it was
\* before the call and satisfies the raw object.
C23_RawObjectKeeps ==
    [][RawObjectStep =>
        \A doc \in Documents :
            StoreMatches(bfilter', bor', doc) =>
                /\ StoreMatches(bfilter, bor, doc)
                /\ EntryMatches(OpsEntry(Condition(blast'.op, blast'.v)),
                                doc[blast'.key])]_vars


\* ------------------------------------------------------------------ C25
\* C25: the normalisation of where(rawFilterObject) and of the $match stages
\* of aggregate changes only regular-expression values: every other value of
\* the object, Date and ObjectId values under an operator or as equality
\* values included, reaches the store unchanged.
C25_OnlyRegexChanged ==
    rawVia \in {"where", "$match"} =>
        \A k \in RawKeys :
            rawQuery[k].leaf # "regex" => sent[k] = rawQuery[k]


\* ------------------------------------------------------------------ C26
\* C26: when two firstOrCreate calls (or two updateOrCreate calls) with the
\* same search run concurrently against a collection that holds no matching
\* document, at most one matching document exists once both have completed.
C26_OneDocument ==
    (\A p \in Callers : racePc[p] = "done") => matching <= 1


\* ------------------------------------------------------------------ C29
\* C29: createMany is not all-or-nothing. A save of one element that fails
\* makes createMany reject, yet no step of a createMany removes a document:
\* what the other elements inserted, before or after the failure, remains.
C29_NotAllOrNothing ==
    /\ [][relPc = "attaching" =>
            \A o \in SavedOwners, r \in Related : pivot'[o][r] >= pivot[o][r]]_vars
    /\ [][relPc = "attaching" /\ pending' # pending /\ pivot' = pivot =>
            rel'.outcome = "error"]_vars

\* createMany over the records for a and b on an owner without records: the
\* save for a failed, the call was rejected, the record for b is stored
C29_Witness ==
    /\ InSync
    /\ rel.ids = <<"a", "b">>
    /\ relPc = "idle"
    /\ rel.outcome = "error"
    /\ pivot[rel.owner] = [r \in Related |-> IF r = "b" THEN 1 ELSE 0]

====
